---- MODULE Spec2Model ----
(***************************************************************************)
(* The consul FSM (consul/fsm.go) and the replicated state store behind it *)
(* (package consul/state), as a state machine that consumes log commands.  *)
(* The FSM's dispatch is translated from consul/fsm.go.  The state store's *)
(* operations are translated from what its test suite pins down            *)
(* (state_store_test.go, fsm_test.go) and, where the tests are silent,     *)
(* from the written specification of the store.                            *)
(***************************************************************************)
EXTENDS Integers, Sequences, FiniteSets, TLC

(***************************************************************************)
(* Bounds of the model.                                                    *)
(***************************************************************************)
\* Highest index the log hands out; indexes strictly increase, so this also
\* bounds the number of commands of one behaviour.
MaxIndex == 5

(***************************************************************************)
(* Universe of small inputs.                                               *)
(***************************************************************************)
NodeNames == {"n1", "n2"}
ServiceIDs == {"s1"}
Addresses == {"1.1.1.1"}

HealthPassing == "passing"
HealthCritical == "critical"
HealthAny == "any"
SessionKeysRelease == "release"
SessionKeysDelete == "delete"

Tables == {"nodes", "services", "checks", "sessions", "kvs", "acls"}

(***************************************************************************)
(* Helpers on finite functions and sets.                                   *)
(***************************************************************************)
Put(f, k, v) == [x \in (DOMAIN f) \cup {k} |-> IF x = k THEN v ELSE f[x]]
Del(f, K) == [x \in (DOMAIN f) \ K |-> f[x]]
EmptyTable == [x \in {} |-> 0]
SetMax(S) == IF S = {} THEN 0 ELSE CHOOSE m \in S : \A x \in S : x <= m
Max2(a, b) == IF a >= b THEN a ELSE b
\* strings.HasPrefix on keys
HasPrefix(k, p) == Len(p) <= Len(k) /\ SubSeq(k, 1, Len(p)) = p

(***************************************************************************)
(* The state store: NewStateStore gives every table empty and every index  *)
(* row absent (read as 0 by maxIndex).                                     *)
(***************************************************************************)
NewStateStore ==
    [nodes |-> EmptyTable, services |-> EmptyTable, checks |-> EmptyTable,
     sessions |-> EmptyTable, session_checks |-> {},
     kvs |-> EmptyTable, tombstones |-> EmptyTable, acls |-> EmptyTable,
     index |-> [t \in Tables |-> 0]]

\* maxIndex(tables...): the highest index row among the given tables.
maxIndex(st, tbls) == SetMax({st.index[t] : t \in tbls})

\* A transaction's outcome: the store it leaves and the error it returns
\* ("" for nil).  An aborted transaction leaves the store it started from.
Ok(st) == [st |-> st, err |-> ""]
Fail(st, e) == [st |-> st, err |-> e]

ErrMissingNode == "Missing node registration"
ErrMissingService == "Missing service registration"
ErrMissingSessionID == "Missing session ID"
ErrMissingACLID == "Missing ACL ID"
ErrMissingCheck == "Missing check registration"
ErrCriticalCheck == "Check is in critical state"
ErrBadBehavior == "Invalid session behavior"
ErrInvalidSession == "Invalid session"

(***************************************************************************)
(* Sessions.  A session row is [Node, Checks, Behavior, CreateIndex,       *)
(* ModifyIndex]; session_checks holds one (Node, CheckID, Session) mapping *)
(* per check a session lists.                                              *)
(***************************************************************************)
\* K/V rows a session holds the lock of.
HeldBy(st, id) == {k \in DOMAIN st.kvs : st.kvs[k].Session = id}

\* Removing K/V rows inside a transaction: each removed key leaves a
\* tombstone at idx, and the kvs index row moves to idx.
kvsDeleteKeys(st, idx, ks) ==
    IF ks = {} THEN st
    ELSE [st EXCEPT !.kvs = Del(@, ks),
                    !.tombstones = [k \in (DOMAIN @) \cup ks |->
                                       IF k \in ks THEN idx ELSE @[k]],
                    !.index["kvs"] = idx]

\* A faulty kvsReleaseKeys that forgets the LockIndex.
kvsReleaseKeys_ResetsLockIndex(st, idx, ks) ==
    IF ks = {} THEN st
    ELSE [st EXCEPT !.kvs = [k \in DOMAIN @ |->
                                IF k \in ks
                                THEN [@[k] EXCEPT !.Session = "", !.LockIndex = 0,
                                                  !.ModifyIndex = idx]
                                ELSE @[k]],
                    !.index["kvs"] = idx]
\* Releasing the locks a destroyed session held: the holder is cleared, the
\* LockIndex stays, the row is stamped with idx.
kvsReleaseKeys(st, idx, ks) ==
    IF ks = {} THEN st
    ELSE [st EXCEPT !.kvs = [k \in DOMAIN @ |->
                                IF k \in ks
                                THEN [@[k] EXCEPT !.Session = "", !.ModifyIndex = idx]
                                ELSE @[k]],
                    !.index["kvs"] = idx]

\* A faulty deleteSessionTxn that leaves the held K/V rows as they are.
deleteSessionTxn_KeepsLocks(st, idx, id) ==
    IF id \notin DOMAIN st.sessions THEN st
    ELSE [st EXCEPT !.sessions = Del(@, {id}),
                    !.index["sessions"] = idx,
                    !.session_checks = {m \in @ : m.Session # id}]
\* deleteSessionTxn: destroys one session and applies its behaviour to the
\* K/V rows it holds.  A session that does not exist is a no-op.
deleteSessionTxn(st, idx, id) ==
    IF id \notin DOMAIN st.sessions THEN st
    ELSE LET sess == st.sessions[id]
             held == HeldBy(st, id)
             st1 == [st EXCEPT !.sessions = Del(@, {id}),
                               !.index["sessions"] = idx]
             st2 == IF sess.Behavior = SessionKeysDelete
                    THEN kvsDeleteKeys(st1, idx, held)
                    ELSE kvsReleaseKeys(st1, idx, held)
         IN [st2 EXCEPT !.session_checks = {m \in @ : m.Session # id}]

RECURSIVE deleteSessionsTxn(_, _, _)
deleteSessionsTxn(st, idx, ids) ==
    IF ids = {} THEN st
    ELSE LET id == CHOOSE x \in ids : TRUE
         IN deleteSessionsTxn(deleteSessionTxn(st, idx, id), idx, ids \ {id})

\* Sessions whose check list names the check (node, cid).
SessionsOfCheck(st, node, cid) ==
    {m.Session : m \in {x \in st.session_checks : x.Node = node /\ x.CheckID = cid}}
\* Sessions bound to the node.
SessionsOfNode(st, node) == {id \in DOMAIN st.sessions : st.sessions[id].Node = node}

\* A faulty sessionCreateTxn that stamps the sessions index row before it
\* looks for the node.
sessionCreateTxn_StampsFirst(st, idx, sess) ==
    IF sess.ID # "" /\ sess.Node \notin DOMAIN st.nodes
    THEN Fail([st EXCEPT !.index["sessions"] = idx], ErrMissingNode)
    ELSE IF sess.ID = "" THEN Fail(st, ErrMissingSessionID)
    ELSE Ok([st EXCEPT
               !.sessions = Put(@, sess.ID,
                                [Node |-> sess.Node, Checks |-> sess.Checks,
                                 Behavior |-> SessionKeysRelease,
                                 CreateIndex |-> idx, ModifyIndex |-> idx]),
               !.index["sessions"] = idx])
\* A faulty sessionCreateTxn that does not look at the status of the checks.
sessionCreateTxn_AcceptsCritical(st, idx, sess) ==
    IF sess.ID = "" THEN Fail(st, ErrMissingSessionID)
    ELSE IF sess.Behavior \notin {"", SessionKeysRelease, SessionKeysDelete}
    THEN Fail(st, ErrBadBehavior)
    ELSE IF sess.Node \notin DOMAIN st.nodes THEN Fail(st, ErrMissingNode)
    ELSE IF \E c \in sess.Checks : <<sess.Node, c>> \notin DOMAIN st.checks
    THEN Fail(st, ErrMissingCheck)
    ELSE Ok([st EXCEPT
               !.sessions = Put(@, sess.ID,
                                [Node |-> sess.Node, Checks |-> sess.Checks,
                                 Behavior |-> IF sess.Behavior = ""
                                              THEN SessionKeysRelease
                                              ELSE sess.Behavior,
                                 CreateIndex |-> idx, ModifyIndex |-> idx]),
               !.session_checks = @ \cup {[Node |-> sess.Node, CheckID |-> c,
                                           Session |-> sess.ID] : c \in sess.Checks},
               !.index["sessions"] = idx])
sessionCreateTxn(st, idx, sess) ==
    IF sess.ID = "" THEN Fail(st, ErrMissingSessionID)
    ELSE IF sess.Behavior \notin {"", SessionKeysRelease, SessionKeysDelete}
    THEN Fail(st, ErrBadBehavior)
    ELSE IF sess.Node \notin DOMAIN st.nodes THEN Fail(st, ErrMissingNode)
    ELSE IF \E c \in sess.Checks : <<sess.Node, c>> \notin DOMAIN st.checks
    THEN Fail(st, ErrMissingCheck)
    ELSE IF \E c \in sess.Checks : st.checks[<<sess.Node, c>>].Status = HealthCritical
    THEN Fail(st, ErrCriticalCheck)
    ELSE Ok([st EXCEPT
               !.sessions = Put(@, sess.ID,
                                [Node |-> sess.Node, Checks |-> sess.Checks,
                                 Behavior |-> IF sess.Behavior = ""
                                              THEN SessionKeysRelease
                                              ELSE sess.Behavior,
                                 CreateIndex |-> idx, ModifyIndex |-> idx]),
               !.session_checks = @ \cup {[Node |-> sess.Node, CheckID |-> c,
                                           Session |-> sess.ID] : c \in sess.Checks},
               !.index["sessions"] = idx])

SessionCreate(st, idx, sess) == sessionCreateTxn(st, idx, sess)
SessionDestroy(st, idx, id) == Ok(deleteSessionTxn(st, idx, id))

(***************************************************************************)
(* Catalog: nodes, services keyed (node, id), checks keyed (node, id).     *)
(***************************************************************************)
\* A faulty ensureNodeTxn that leaves a node of the same content as it is.
ensureNodeTxn_SkipsSame(st, idx, node, addr) ==
    IF node \in DOMAIN st.nodes /\ st.nodes[node].Address = addr THEN Ok(st)
    ELSE LET ci == IF node \in DOMAIN st.nodes THEN st.nodes[node].CreateIndex ELSE idx
         IN Ok([st EXCEPT !.nodes = Put(@, node, [Address |-> addr, CreateIndex |-> ci,
                                                   ModifyIndex |-> idx]),
                          !.index["nodes"] = idx])
ensureNodeTxn(st, idx, node, addr) ==
    LET ci == IF node \in DOMAIN st.nodes THEN st.nodes[node].CreateIndex ELSE idx
    IN Ok([st EXCEPT !.nodes = Put(@, node, [Address |-> addr, CreateIndex |-> ci,
                                              ModifyIndex |-> idx]),
                     !.index["nodes"] = idx])

ensureServiceTxn(st, idx, node, svc) ==
    IF node \notin DOMAIN st.nodes THEN Fail(st, ErrMissingNode)
    ELSE LET key == <<node, svc.ID>>
             ci == IF key \in DOMAIN st.services
                   THEN st.services[key].CreateIndex ELSE idx
         IN Ok([st EXCEPT !.services = Put(@, key, [Service |-> svc.Service,
                                                    CreateIndex |-> ci,
                                                    ModifyIndex |-> idx]),
                          !.index["services"] = idx])

\* A faulty ensureCheckTxn that does not look for the check's service.
ensureCheckTxn_AnyService(st, idx, hc) ==
    LET key == <<hc.Node, hc.CheckID>>
        ci == IF key \in DOMAIN st.checks THEN st.checks[key].CreateIndex ELSE idx
    IN IF hc.Node \notin DOMAIN st.nodes THEN Fail(st, ErrMissingNode)
       ELSE Ok([st EXCEPT !.checks = Put(@, key,
                              [Status |-> hc.Status, ServiceID |-> hc.ServiceID,
                               CreateIndex |-> ci, ModifyIndex |-> idx]),
                          !.index["checks"] = idx])
ensureCheckTxn(st, idx, hc) ==
    LET key == <<hc.Node, hc.CheckID>>
        ci == IF key \in DOMAIN st.checks THEN st.checks[key].CreateIndex ELSE idx
        status == IF hc.Status = "" THEN HealthCritical ELSE hc.Status
    IN IF hc.Node \notin DOMAIN st.nodes THEN Fail(st, ErrMissingNode)
       ELSE IF hc.ServiceID # "" /\ <<hc.Node, hc.ServiceID>> \notin DOMAIN st.services
       THEN Fail(st, ErrMissingService)
       ELSE LET st1 == IF status = HealthCritical
                       THEN deleteSessionsTxn(st, idx,
                                SessionsOfCheck(st, hc.Node, hc.CheckID))
                       ELSE st
            IN Ok([st1 EXCEPT !.checks = Put(@, key,
                                    [Status |-> status, ServiceID |-> hc.ServiceID,
                                     CreateIndex |-> ci, ModifyIndex |-> idx]),
                              !.index["checks"] = idx])

EnsureNode(st, idx, node, addr) == ensureNodeTxn(st, idx, node, addr)
EnsureService(st, idx, node, svc) == ensureServiceTxn(st, idx, node, svc)
EnsureCheck(st, idx, hc) == ensureCheckTxn(st, idx, hc)

\* A faulty deleteCheckTxn that lets the sessions listing the check live.
deleteCheckTxn_KeepsSessions(st, idx, node, cid) ==
    IF <<node, cid>> \notin DOMAIN st.checks THEN st
    ELSE [st EXCEPT !.checks = Del(@, {<<node, cid>>}), !.index["checks"] = idx]
\* deleteCheckTxn: removes the check and destroys the sessions that list it.
deleteCheckTxn(st, idx, node, cid) ==
    IF <<node, cid>> \notin DOMAIN st.checks THEN st
    ELSE LET st1 == [st EXCEPT !.checks = Del(@, {<<node, cid>>}),
                               !.index["checks"] = idx]
         IN deleteSessionsTxn(st1, idx, SessionsOfCheck(st, node, cid))

RECURSIVE deleteChecksTxn(_, _, _, _)
deleteChecksTxn(st, idx, node, cids) ==
    IF cids = {} THEN st
    ELSE LET c == CHOOSE x \in cids : TRUE
         IN deleteChecksTxn(deleteCheckTxn(st, idx, node, c), idx, node, cids \ {c})

\* deleteServiceTxn: removes the service and the checks attached to it.
deleteServiceTxn(st, idx, node, sid) ==
    IF <<node, sid>> \notin DOMAIN st.services THEN st
    ELSE LET cids == {k[2] : k \in {x \in DOMAIN st.checks :
                                       x[1] = node /\ st.checks[x].ServiceID = sid}}
             st1 == deleteChecksTxn(st, idx, node, cids)
         IN [st1 EXCEPT !.services = Del(@, {<<node, sid>>}),
                        !.index["services"] = idx]

RECURSIVE deleteServicesTxn(_, _, _, _)
deleteServicesTxn(st, idx, node, sids) ==
    IF sids = {} THEN st
    ELSE LET s == CHOOSE x \in sids : TRUE
         IN deleteServicesTxn(deleteServiceTxn(st, idx, node, s), idx, node, sids \ {s})

\* deleteNodeTxn: removes the node's services, its checks, the node itself
\* and the sessions bound to the node.
deleteNodeTxn(st, idx, node) ==
    IF node \notin DOMAIN st.nodes THEN st
    ELSE LET sids == {k[2] : k \in {x \in DOMAIN st.services : x[1] = node}}
             st1 == deleteServicesTxn(st, idx, node, sids)
             cids == {k[2] : k \in {x \in DOMAIN st1.checks : x[1] = node}}
             st2 == deleteChecksTxn(st1, idx, node, cids)
             st3 == [st2 EXCEPT !.nodes = Del(@, {node}), !.index["nodes"] = idx]
         IN deleteSessionsTxn(st3, idx, SessionsOfNode(st3, node))

DeleteNode(st, idx, node) == Ok(deleteNodeTxn(st, idx, node))
DeleteService(st, idx, node, sid) == Ok(deleteServiceTxn(st, idx, node, sid))
DeleteCheck(st, idx, node, cid) == Ok(deleteCheckTxn(st, idx, node, cid))

\* EnsureRegistration: node, then the optional service, the optional check and
\* every check of Checks, in one transaction: the first failure aborts it all.
None == [none |-> TRUE]
RECURSIVE ensureChecksTxn(_, _, _)
ensureChecksTxn(st, idx, hcs) ==
    IF hcs = <<>> THEN Ok(st)
    ELSE LET r == ensureCheckTxn(st, idx, Head(hcs))
         IN IF r.err # "" THEN r ELSE ensureChecksTxn(r.st, idx, Tail(hcs))

\* ensureRegistrationTxn: the sub-steps in order; it stops at the first one
\* that fails, with what the transaction has written so far.
ensureRegistrationTxn(st, idx, req) ==
    LET r1 == ensureNodeTxn(st, idx, req.Node, req.Address)
        r2 == IF req.Service = None THEN r1
              ELSE ensureServiceTxn(r1.st, idx, req.Node, req.Service)
        r3 == IF r2.err # "" \/ req.Check = None THEN r2
              ELSE ensureCheckTxn(r2.st, idx, req.Check)
    IN IF r3.err # "" THEN r3 ELSE ensureChecksTxn(r3.st, idx, req.Checks)

\* A faulty EnsureRegistration that commits the sub-steps done before a failure.
EnsureRegistration_KeepsPartial(st, idx, req) == ensureRegistrationTxn(st, idx, req)
EnsureRegistration(st, idx, req) ==
    LET r == ensureRegistrationTxn(st, idx, req)
    IN IF r.err # "" THEN Fail(st, r.err) ELSE r

(***************************************************************************)
(* Key/value store.  A row is [Value, Session, LockIndex, CreateIndex,     *)
(* ModifyIndex]; a tombstone maps a removed key to the index of its        *)
(* removal.  The bool-returning operations give [st, err, ok].             *)
(***************************************************************************)
OkBool(st, b) == [st |-> st, err |-> "", ok |-> b]
FailBool(st, e) == [st |-> st, err |-> e, ok |-> FALSE]

\* A faulty kvsSetTxn that leaves a tombstone of the key in place.
kvsSetTxn_KeepsTombstone(st, idx, key, value, session, lockIndex) ==
    LET ci == IF key \in DOMAIN st.kvs THEN st.kvs[key].CreateIndex ELSE idx
    IN [st EXCEPT !.kvs = Put(@, key, [Value |-> value, Session |-> session,
                                       LockIndex |-> lockIndex,
                                       CreateIndex |-> ci, ModifyIndex |-> idx]),
                  !.index["kvs"] = idx]
\* kvsSetTxn: the inner store of an entry.  CreateIndex survives an update,
\* ModifyIndex is idx; the lock fields are the caller's (lock, unlock) or the
\* existing row's (plain set).  A tombstone of the key is dropped.
kvsSetTxn(st, idx, key, value, session, lockIndex) ==
    LET ci == IF key \in DOMAIN st.kvs THEN st.kvs[key].CreateIndex ELSE idx
    IN [st EXCEPT !.kvs = Put(@, key, [Value |-> value, Session |-> session,
                                       LockIndex |-> lockIndex,
                                       CreateIndex |-> ci, ModifyIndex |-> idx]),
                  !.tombstones = Del(@, {key}),
                  !.index["kvs"] = idx]

KVSSet(st, idx, entry) ==
    LET exists == entry.Key \in DOMAIN st.kvs
    IN Ok(kvsSetTxn(st, idx, entry.Key, entry.Value,
                    IF exists THEN st.kvs[entry.Key].Session ELSE "",
                    IF exists THEN st.kvs[entry.Key].LockIndex ELSE 0))

KVSDelete(st, idx, key) ==
    IF key \notin DOMAIN st.kvs THEN Ok(st)
    ELSE Ok(kvsDeleteKeys(st, idx, {key}))

\* A faulty KVSDeleteTree that removes what lies under the prefix and leaves
\* the key that equals it.
KVSDeleteTree_KeepsRoot(st, idx, prefix) ==
    Ok(kvsDeleteKeys(st, idx, {k \in DOMAIN st.kvs : HasPrefix(k, prefix) /\ k # prefix}))
\* A faulty KVSDeleteTree that stamps the kvs index row whatever it removes.
KVSDeleteTree_StampsAlways(st, idx, prefix) ==
    Ok([kvsDeleteKeys(st, idx, {k \in DOMAIN st.kvs : HasPrefix(k, prefix)})
           EXCEPT !.index["kvs"] = idx])
KVSDeleteTree(st, idx, prefix) ==
    Ok(kvsDeleteKeys(st, idx, {k \in DOMAIN st.kvs : HasPrefix(k, prefix)}))

\* A faulty KVSDeleteCAS that stamps the kvs index row when the key is absent.
KVSDeleteCAS_BumpsOnMissing(st, idx, cidx, key) ==
    IF key \notin DOMAIN st.kvs THEN OkBool([st EXCEPT !.index["kvs"] = idx], TRUE)
    ELSE IF st.kvs[key].ModifyIndex # cidx THEN OkBool(st, FALSE)
    ELSE OkBool(kvsDeleteKeys(st, idx, {key}), TRUE)
KVSDeleteCAS(st, idx, cidx, key) ==
    IF key \notin DOMAIN st.kvs THEN OkBool(st, TRUE)
    ELSE IF st.kvs[key].ModifyIndex # cidx THEN OkBool(st, FALSE)
    ELSE OkBool(kvsDeleteKeys(st, idx, {key}), TRUE)

\* A faulty KVSSetCAS that lets a request's ModifyIndex of 0 overwrite.
KVSSetCAS_ZeroOverwrites(st, idx, entry) ==
    LET exists == entry.Key \in DOMAIN st.kvs
    IN IF exists /\ entry.ModifyIndex \notin {0, st.kvs[entry.Key].ModifyIndex}
       THEN OkBool(st, FALSE)
       ELSE IF ~exists /\ entry.ModifyIndex # 0 THEN OkBool(st, FALSE)
       ELSE OkBool(kvsSetTxn(st, idx, entry.Key, entry.Value,
                             IF exists THEN st.kvs[entry.Key].Session ELSE "",
                             IF exists THEN st.kvs[entry.Key].LockIndex ELSE 0),
                   TRUE)
\* KVSSetCAS: a ModifyIndex of zero means set-if-not-exists; any other
\* ModifyIndex must match the stored one.
KVSSetCAS(st, idx, entry) ==
    LET exists == entry.Key \in DOMAIN st.kvs
    IN IF entry.ModifyIndex = 0 /\ exists THEN OkBool(st, FALSE)
       ELSE IF entry.ModifyIndex # 0 /\ ~exists THEN OkBool(st, FALSE)
       ELSE IF exists /\ entry.ModifyIndex # 0
               /\ entry.ModifyIndex # st.kvs[entry.Key].ModifyIndex
       THEN OkBool(st, FALSE)
       ELSE OkBool(kvsSetTxn(st, idx, entry.Key, entry.Value,
                             IF exists THEN st.kvs[entry.Key].Session ELSE "",
                             IF exists THEN st.kvs[entry.Key].LockIndex ELSE 0),
                   TRUE)

\* A faulty KVSLock that counts a re-lock by the holder as an acquisition.
KVSLock_CountsRelock(st, idx, entry) ==
    LET exists == entry.Key \in DOMAIN st.kvs
    IN IF entry.Session = "" THEN FailBool(st, ErrMissingSessionID)
       ELSE IF entry.Session \notin DOMAIN st.sessions
       THEN FailBool(st, ErrInvalidSession)
       ELSE IF exists /\ st.kvs[entry.Key].Session \notin {"", entry.Session}
       THEN OkBool(st, FALSE)
       ELSE OkBool(kvsSetTxn(st, idx, entry.Key, entry.Value, entry.Session,
                             IF exists THEN st.kvs[entry.Key].LockIndex + 1 ELSE 1),
                   TRUE)
\* A faulty KVSLock that hands a held key to whoever asks.
KVSLock_Steals(st, idx, entry) ==
    LET exists == entry.Key \in DOMAIN st.kvs
    IN IF entry.Session = "" THEN FailBool(st, ErrMissingSessionID)
       ELSE IF entry.Session \notin DOMAIN st.sessions
       THEN FailBool(st, ErrInvalidSession)
       ELSE OkBool(kvsSetTxn(st, idx, entry.Key, entry.Value, entry.Session,
                             IF exists THEN st.kvs[entry.Key].LockIndex + 1 ELSE 1),
                   TRUE)
KVSLock(st, idx, entry) ==
    LET exists == entry.Key \in DOMAIN st.kvs
    IN IF entry.Session = "" THEN FailBool(st, ErrMissingSessionID)
       ELSE IF entry.Session \notin DOMAIN st.sessions
       THEN FailBool(st, ErrInvalidSession)
       ELSE IF exists /\ st.kvs[entry.Key].Session = entry.Session
       THEN OkBool(kvsSetTxn(st, idx, entry.Key, entry.Value, entry.Session,
                             st.kvs[entry.Key].LockIndex), TRUE)
       ELSE IF exists /\ st.kvs[entry.Key].Session # ""
       THEN OkBool(st, FALSE)
       ELSE OkBool(kvsSetTxn(st, idx, entry.Key, entry.Value, entry.Session,
                             IF exists THEN st.kvs[entry.Key].LockIndex + 1 ELSE 1),
                   TRUE)

\* A faulty KVSUnlock that lets any session release a held key.
KVSUnlock_AnySession(st, idx, entry) ==
    IF entry.Session = "" THEN FailBool(st, ErrMissingSessionID)
    ELSE IF entry.Key \notin DOMAIN st.kvs THEN OkBool(st, FALSE)
    ELSE IF st.kvs[entry.Key].Session = "" THEN OkBool(st, FALSE)
    ELSE OkBool(kvsSetTxn(st, idx, entry.Key, entry.Value, "",
                          st.kvs[entry.Key].LockIndex), TRUE)
KVSUnlock(st, idx, entry) ==
    IF entry.Session = "" THEN FailBool(st, ErrMissingSessionID)
    ELSE IF entry.Key \notin DOMAIN st.kvs THEN OkBool(st, FALSE)
    ELSE IF st.kvs[entry.Key].Session # entry.Session THEN OkBool(st, FALSE)
    ELSE OkBool(kvsSetTxn(st, idx, entry.Key, entry.Value, "",
                          st.kvs[entry.Key].LockIndex), TRUE)

\* A faulty ReapTombstones that stops below the index it is given.
ReapTombstones_Below(st, upto) ==
    Ok([st EXCEPT !.tombstones = Del(@, {k \in DOMAIN @ : @[k] < upto})])
\* ReapTombstones(idx): drops every tombstone whose index is <= idx.
ReapTombstones(st, upto) ==
    Ok([st EXCEPT !.tombstones = Del(@, {k \in DOMAIN @ : @[k] <= upto})])

(***************************************************************************)
(* ACLs.                                                                   *)
(***************************************************************************)
\* A faulty ACLSet that stamps CreateIndex anew on every write.
ACLSet_StampsCreate(st, idx, acl) ==
    IF acl.ID = "" THEN Fail(st, ErrMissingACLID)
    ELSE Ok([st EXCEPT !.acls = Put(@, acl.ID, [Rules |-> acl.Rules,
                                                CreateIndex |-> idx,
                                                ModifyIndex |-> idx]),
                       !.index["acls"] = idx])
ACLSet(st, idx, acl) ==
    IF acl.ID = "" THEN Fail(st, ErrMissingACLID)
    ELSE LET ci == IF acl.ID \in DOMAIN st.acls
                   THEN st.acls[acl.ID].CreateIndex ELSE idx
         IN Ok([st EXCEPT !.acls = Put(@, acl.ID, [Rules |-> acl.Rules,
                                                   CreateIndex |-> ci,
                                                   ModifyIndex |-> idx]),
                          !.index["acls"] = idx])

ACLDelete(st, idx, id) ==
    IF id \notin DOMAIN st.acls THEN Ok(st)
    ELSE Ok([st EXCEPT !.acls = Del(@, {id}), !.index["acls"] = idx])

\* ACLRestore: the ACL goes in with the indexes it carries, and the acls
\* index row rises to its ModifyIndex.
ACLRestore(st, acl) ==
    Ok([st EXCEPT !.acls = Put(@, acl.ID, [Rules |-> acl.Rules,
                                           CreateIndex |-> acl.CreateIndex,
                                           ModifyIndex |-> acl.ModifyIndex]),
                  !.index["acls"] = Max2(@, acl.ModifyIndex)])

(***************************************************************************)
(* Reads.  Each returns [idx, res]: the result index and the rows.         *)
(***************************************************************************)
Restrict(f, K) == [x \in K |-> f[x]]
ModifyIndexes(f, K) == {f[x].ModifyIndex : x \in K}
Rows(st, tbl, K) == [idx |-> SetMax(ModifyIndexes(tbl, K)), res |-> Restrict(tbl, K)]

\* KVSList(prefix): the live rows under the prefix; the index is the highest
\* ModifyIndex among them or, if higher, the highest tombstone under the prefix.
\* A faulty KVSList that does not look at the tombstones.
KVSList_NoTombstones(st, prefix) ==
    LET live == {k \in DOMAIN st.kvs : HasPrefix(k, prefix)}
    IN [idx |-> SetMax(ModifyIndexes(st.kvs, live)), res |-> Restrict(st.kvs, live)]
KVSList(st, prefix) ==
    LET live == {k \in DOMAIN st.kvs : HasPrefix(k, prefix)}
        dead == {k \in DOMAIN st.tombstones : HasPrefix(k, prefix)}
    IN [idx |-> Max2(SetMax(ModifyIndexes(st.kvs, live)),
                     SetMax({st.tombstones[k] : k \in dead})),
        res |-> Restrict(st.kvs, live)]

\* KVSListKeys(prefix, ""): the keys under the prefix, same index as KVSList.
KVSListKeys(st, prefix) ==
    [idx |-> KVSList(st, prefix).idx,
     res |-> {k \in DOMAIN st.kvs : HasPrefix(k, prefix)}]

\* Queries that return the highest ModifyIndex of their result set.
\* A faulty NodeServices that answers the index row of its table.
NodeServices_IndexRow(st, node) ==
    [idx |-> maxIndex(st, {"services"}),
     res |-> Restrict(st.services, {k \in DOMAIN st.services : k[1] = node})]
NodeServices(st, node) ==
    Rows(st, st.services, {k \in DOMAIN st.services : k[1] = node})
NodeChecks(st, node) ==
    Rows(st, st.checks, {k \in DOMAIN st.checks : k[1] = node})
ServiceChecks(st, sid) ==
    Rows(st, st.checks, {k \in DOMAIN st.checks : st.checks[k].ServiceID = sid})
\* A faulty NodeSessions that answers the index row of the sessions table.
NodeSessions_IndexRow(st, node) ==
    [idx |-> maxIndex(st, {"sessions"}),
     res |-> Restrict(st.sessions, SessionsOfNode(st, node))]
NodeSessions(st, node) ==
    Rows(st, st.sessions, SessionsOfNode(st, node))

\* CheckServiceNodes(service): for every node running the service, the node,
\* the service and the checks attached to that service on that node; the
\* index is the highest ModifyIndex seen in the result.
\* A faulty CheckServiceNodes that answers the highest of the three index rows.
CheckServiceNodes_IndexRows(st, name) ==
    LET svcs == {k \in DOMAIN st.services : st.services[k].Service = name}
        chks == {c \in DOMAIN st.checks :
                    \E k \in svcs : c[1] = k[1] /\ st.checks[c].ServiceID = k[2]}
        nds == {k[1] : k \in svcs}
    IN [idx |-> maxIndex(st, {"nodes", "services", "checks"}),
        res |-> <<Restrict(st.nodes, nds), Restrict(st.services, svcs),
                  Restrict(st.checks, chks)>>]
CheckServiceNodes(st, name) ==
    LET svcs == {k \in DOMAIN st.services : st.services[k].Service = name}
        chks == {c \in DOMAIN st.checks :
                    \E k \in svcs : c[1] = k[1] /\ st.checks[c].ServiceID = k[2]}
        nds == {k[1] : k \in svcs}
    IN [idx |-> SetMax(ModifyIndexes(st.nodes, nds)
                       \cup ModifyIndexes(st.services, svcs)
                       \cup ModifyIndexes(st.checks, chks)),
        res |-> <<Restrict(st.nodes, nds), Restrict(st.services, svcs),
                  Restrict(st.checks, chks)>>]

\* Whole-table queries return the table's index row.
Nodes(st) == [idx |-> maxIndex(st, {"nodes"}), res |-> st.nodes]
SessionList(st) == [idx |-> maxIndex(st, {"sessions"}), res |-> st.sessions]
ACLList(st) == [idx |-> maxIndex(st, {"acls"}), res |-> st.acls]
\* ChecksInState(state): "any" bypasses the filter.
ChecksInState(st, state) ==
    LET K == {k \in DOMAIN st.checks : state = HealthAny \/ st.checks[k].Status = state}
    IN [idx |-> Max2(maxIndex(st, {"checks"}), SetMax(ModifyIndexes(st.checks, K))),
        res |-> Restrict(st.checks, K)]

(***************************************************************************)
(* The FSM.  A log entry is [Index, Type, Req]: the type byte and the      *)
(* decoded request.  Apply returns [st, resp]: the store afterwards and    *)
(* the value handed back to the log.                                       *)
(***************************************************************************)
RegisterRequestType == 0
DeregisterRequestType == 1
KVSRequestType == 2
SessionRequestType == 3
ACLRequestType == 4
TombstoneRequestType == 5
IgnoreUnknownTypeFlag == 128

Nil == [kind |-> "nil", val |-> ""]
Error(e) == [kind |-> "error", val |-> e]
Bool(b) == [kind |-> "bool", val |-> IF b THEN "true" ELSE "false"]
Str(x) == [kind |-> "string", val |-> x]
Panic == [kind |-> "panic", val |-> "failed to apply request"]

\* "return err" of an error-returning store call.
RetErr(r) == [st |-> r.st, resp |-> IF r.err # "" THEN Error(r.err) ELSE Nil]
\* "if err != nil { return err } else { return act }"
RetAct(r) == [st |-> r.st, resp |-> IF r.err # "" THEN Error(r.err) ELSE Bool(r.ok)]
\* "if err != nil { return err } else { return id }"
RetID(r, id) == [st |-> r.st, resp |-> IF r.err # "" THEN Error(r.err) ELSE Str(id)]

\* A faulty applyRegister that stamps the registration with another index
\* than the log entry's.
applyRegister_OtherIndex(st, req, index) ==
    RetErr(EnsureRegistration(st, index + 1, req))
applyRegister(st, req, index) == RetErr(EnsureRegistration(st, index, req))

\* A faulty applyDeregister that looks at the check id before the service id.
applyDeregister_CheckFirst(st, req, index) ==
    IF req.CheckID # "" THEN RetErr(DeleteCheck(st, index, req.Node, req.CheckID))
    ELSE IF req.ServiceID # ""
    THEN RetErr(DeleteService(st, index, req.Node, req.ServiceID))
    ELSE RetErr(DeleteNode(st, index, req.Node))
\* A faulty applyDeregister that takes a request without service and check
\* for the deregistration of a check.
applyDeregister_NoNodeCase(st, req, index) ==
    IF req.ServiceID # "" THEN RetErr(DeleteService(st, index, req.Node, req.ServiceID))
    ELSE RetErr(DeleteCheck(st, index, req.Node, req.CheckID))
applyDeregister(st, req, index) ==
    IF req.ServiceID # "" THEN RetErr(DeleteService(st, index, req.Node, req.ServiceID))
    ELSE IF req.CheckID # "" THEN RetErr(DeleteCheck(st, index, req.Node, req.CheckID))
    ELSE RetErr(DeleteNode(st, index, req.Node))

applyKVSOperation(st, req, index) ==
    CASE req.Op = "set" -> RetErr(KVSSet(st, index, req.DirEnt))
      [] req.Op = "delete" -> RetErr(KVSDelete(st, index, req.DirEnt.Key))
      [] req.Op = "delete-cas" ->
            RetAct(KVSDeleteCAS(st, index, req.DirEnt.ModifyIndex, req.DirEnt.Key))
      [] req.Op = "delete-tree" -> RetErr(KVSDeleteTree(st, index, req.DirEnt.Key))
      [] req.Op = "cas" -> RetAct(KVSSetCAS(st, index, req.DirEnt))
      [] req.Op = "lock" -> RetAct(KVSLock(st, index, req.DirEnt))
      [] req.Op = "unlock" -> RetAct(KVSUnlock(st, index, req.DirEnt))
      [] OTHER -> [st |-> st, resp |-> Error("Invalid KVS operation")]

applySessionOperation(st, req, index) ==
    CASE req.Op = "create" -> RetID(SessionCreate(st, index, req.Session), req.Session.ID)
      [] req.Op = "destroy" -> RetErr(SessionDestroy(st, index, req.Session.ID))
      [] OTHER -> [st |-> st, resp |-> Error("Invalid Session operation")]

applyACLOperation(st, req, index) ==
    CASE req.Op \in {"set", "force-set"} -> RetID(ACLSet(st, index, req.ACL), req.ACL.ID)
      [] req.Op = "delete" -> RetErr(ACLDelete(st, index, req.ACL.ID))
      [] OTHER -> [st |-> st, resp |-> Error("Invalid ACL operation")]

applyTombstoneOperation(st, req, index) ==
    CASE req.Op = "reap" -> RetErr(ReapTombstones(st, req.ReapIndex))
      [] OTHER -> [st |-> st, resp |-> Error("Invalid Tombstone operation")]

\* A faulty Apply that ignores every unknown message type, flagged or not.
Apply_IgnoresAlways(st, log) ==
    LET ignoreUnknown == (log.Type \div IgnoreUnknownTypeFlag) % 2 = 1
        msgType == IF ignoreUnknown THEN log.Type - IgnoreUnknownTypeFlag ELSE log.Type
    IN CASE msgType = RegisterRequestType -> applyRegister(st, log.Req, log.Index)
         [] msgType = DeregisterRequestType -> applyDeregister(st, log.Req, log.Index)
         [] msgType = KVSRequestType -> applyKVSOperation(st, log.Req, log.Index)
         [] msgType = SessionRequestType -> applySessionOperation(st, log.Req, log.Index)
         [] msgType = ACLRequestType -> applyACLOperation(st, log.Req, log.Index)
         [] msgType = TombstoneRequestType -> applyTombstoneOperation(st, log.Req, log.Index)
         [] OTHER -> [st |-> st, resp |-> Nil]
\* A faulty Apply that notes the flag and dispatches on the unstripped type.
Apply_KeepsBit(st, log) ==
    LET ignoreUnknown == (log.Type \div IgnoreUnknownTypeFlag) % 2 = 1
        msgType == log.Type
    IN CASE msgType = RegisterRequestType -> applyRegister(st, log.Req, log.Index)
         [] msgType = DeregisterRequestType -> applyDeregister(st, log.Req, log.Index)
         [] msgType = KVSRequestType -> applyKVSOperation(st, log.Req, log.Index)
         [] msgType = SessionRequestType -> applySessionOperation(st, log.Req, log.Index)
         [] msgType = ACLRequestType -> applyACLOperation(st, log.Req, log.Index)
         [] msgType = TombstoneRequestType -> applyTombstoneOperation(st, log.Req, log.Index)
         [] OTHER -> IF ignoreUnknown THEN [st |-> st, resp |-> Nil]
                     ELSE [st |-> st, resp |-> Panic]
Apply(st, log) ==
    LET ignoreUnknown == (log.Type \div IgnoreUnknownTypeFlag) % 2 = 1
        msgType == IF ignoreUnknown THEN log.Type - IgnoreUnknownTypeFlag ELSE log.Type
    IN CASE msgType = RegisterRequestType -> applyRegister(st, log.Req, log.Index)
         [] msgType = DeregisterRequestType -> applyDeregister(st, log.Req, log.Index)
         [] msgType = KVSRequestType -> applyKVSOperation(st, log.Req, log.Index)
         [] msgType = SessionRequestType -> applySessionOperation(st, log.Req, log.Index)
         [] msgType = ACLRequestType -> applyACLOperation(st, log.Req, log.Index)
         [] msgType = TombstoneRequestType -> applyTombstoneOperation(st, log.Req, log.Index)
         [] OTHER -> IF ignoreUnknown THEN [st |-> st, resp |-> Nil]
                     ELSE [st |-> st, resp |-> Panic]

(***************************************************************************)
(* State of the machine.                                                   *)
(***************************************************************************)
VARIABLES
    state,      \* c.state: the FSM's store, as committed
    cmd,        \* the latest operation: [Call, Type, Index, Req]
    resp,       \* what it returned
    nextIndex,  \* the index the log gives its next entry
    watches,    \* the store's table watches: the subscribers of each table
    chan,       \* each subscriber's notification channel
    txn,        \* the write transaction in flight
    view,       \* the read transaction in flight
    snap,       \* the snapshot handed to the log layer and its sink
    peer        \* a second replica fed by the same log

\* What lives beside the committed store: watches, channels, transactions
\* in flight, the snapshot and the second replica.
concVars == <<watches, chan, txn, view, snap, peer>>
vars == <<state, cmd, resp, nextIndex, watches, chan, txn, view, snap, peer>>

NoCmd == [Call |-> "NewFSM", Type |-> -1, Index |-> 0, Req |-> None]

Subscribers == {"w1", "w2"}
\* A channel nobody waits on; Wait(ch) makes [Table, Got, Index]: the table
\* watched, the notifications received since, the operation that notified.
NoChan == [Table |-> "", Got |-> 0, Index |-> 0]
NoTxn == [phase |-> "none"]
NoView == [open |-> FALSE]
NoSnap == [phase |-> "none"]
\* The second replica: the entries committed to the log, its own store, how many entries it has applied and what
\* its latest Apply returned.
NoPeer == [log |-> <<>>, state |-> NewStateStore, applied |-> 0, resp |-> Nil]

\* A fresh store has no subscriber, no transaction and no snapshot.
InitConc ==
    /\ watches = [t \in Tables |-> {}]
    /\ chan = [s \in Subscribers |-> NoChan]
    /\ txn = NoTxn
    /\ view = NoView
    /\ snap = NoSnap
    /\ peer = NoPeer

\* NewFSM; the log numbers its entries from 1.
Init ==
    /\ state = NewStateStore
    /\ cmd = NoCmd
    /\ resp = Nil
    /\ nextIndex = 1
    /\ InitConc

\* The store's own callers (its tests) number from 0.
InitFromZero ==
    /\ state = NewStateStore
    /\ cmd = NoCmd
    /\ resp = Nil
    /\ nextIndex = 0
    /\ InitConc

\* The log still has an index to hand out.
LogHasRoom == nextIndex <= MaxIndex

\* One Apply of a log entry of the given type.
ApplyLog(type, req) ==
    LET r == Apply(state, [Index |-> nextIndex, Type |-> type, Req |-> req])
    IN /\ state' = r.st
       /\ resp' = r.resp
       /\ cmd' = [Call |-> "Apply", Type |-> type, Index |-> nextIndex, Req |-> req]
       /\ nextIndex' = nextIndex + 1
       /\ UNCHANGED concVars

\* One direct call of a store operation, as the tests and the endpoints make.
CallStore(name, req, r) ==
    /\ state' = r.st
    /\ resp' = IF r.err # "" THEN Error(r.err) ELSE Nil
    /\ cmd' = [Call |-> name, Type |-> -1, Index |-> nextIndex, Req |-> req]
    /\ nextIndex' = nextIndex + 1
    /\ UNCHANGED concVars

(***************************************************************************)
(* Requests.                                                               *)
(***************************************************************************)
NodeServiceOf(s) == [ID |-> s, Service |-> s]
HealthChecks(nodes, cids, statuses, sids) ==
    [Node : nodes, CheckID : cids, Status : statuses, ServiceID : sids]
\* A registration carries the node and at most one service and one check
\* of that node.
RegisterReqs(nodes, sids, hcs) ==
    {r \in [Node : nodes, Address : Addresses,
            Service : {None} \cup {NodeServiceOf(s) : s \in sids},
            Check : {None} \cup hcs, Checks : {<<>>}] :
        r.Check = None \/ r.Check.Node = r.Node}
DeregisterReqs(nodes, sids, cids) ==
    [Node : nodes, ServiceID : sids, CheckID : cids]

DirEntries(keys, values, sessions, mis) ==
    [Key : keys, Value : values, Session : sessions, ModifyIndex : mis]
KVSReqs(ops, ents) == [Op : ops, DirEnt : ents]
SessionCreateReqs(ids, nodes, checksets, behaviors) ==
    [Op : {"create"},
     Session : [ID : ids, Node : nodes, Checks : checksets, Behavior : behaviors]]
SessionOpReqs(ops, ids) ==
    [Op : ops, Session : [ID : ids, Node : {""}, Checks : {{}}, Behavior : {""}]]
ACLReqs(ops, ids, rules) == [Op : ops, ACL : [ID : ids, Rules : rules]]
TombstoneReqs(ops, upto) == [Op : ops, ReapIndex : upto]

(***************************************************************************)
(* Actions: one per message type the log can carry, and one per store      *)
(* operation that callers reach directly.                                  *)
(***************************************************************************)
Register(reqs) ==
    \E r \in reqs :
        /\ LogHasRoom
        /\ ApplyLog(RegisterRequestType, r)
Deregister(reqs) ==
    \E r \in reqs :
        /\ LogHasRoom
        /\ ApplyLog(DeregisterRequestType, r)
KVS(reqs) ==
    \E r \in reqs :
        /\ LogHasRoom
        /\ ApplyLog(KVSRequestType, r)
\* Session ids are generated fresh by the server before the command is logged.
Session(reqs) ==
    \E r \in reqs :
        /\ LogHasRoom
        /\ r.Op = "create" => r.Session.ID \notin DOMAIN state.sessions
        /\ ApplyLog(SessionRequestType, r)
ACL(reqs) ==
    \E r \in reqs :
        /\ LogHasRoom
        /\ ApplyLog(ACLRequestType, r)
Tombstone(reqs) ==
    \E r \in reqs :
        /\ LogHasRoom
        /\ ApplyLog(TombstoneRequestType, r)

CallEnsureService(nodes, sids) ==
    \E n \in nodes, s \in sids :
        /\ LogHasRoom
        /\ CallStore("EnsureService", [Node |-> n, Service |-> NodeServiceOf(s)],
                     EnsureService(state, nextIndex, n, NodeServiceOf(s)))
CallEnsureCheck(hcs) ==
    \E hc \in hcs :
        /\ LogHasRoom
        /\ CallStore("EnsureCheck", hc, EnsureCheck(state, nextIndex, hc))

(***************************************************************************)
(* Spec: every message type, over one node, one service, one check, one    *)
(* session, one key and one ACL.                                           *)
(***************************************************************************)
AllRegisterReqs ==
    {r \in RegisterReqs({"n1"}, {"s1"},
                        HealthChecks({"n1"}, {"c1"}, {HealthPassing, HealthCritical},
                                     {"", "s1"})) :
        \/ r.Service = None /\ r.Check = None
        \/ r.Service # None /\ r.Check # None
              /\ r.Check.ServiceID = "s1" /\ r.Check.Status = HealthPassing
        \/ r.Service = None /\ r.Check # None
              /\ r.Check.ServiceID = "" /\ r.Check.Status = HealthCritical}
AllKVSReqs ==
    KVSReqs({"set", "delete", "cas", "bogus"}, DirEntries({<<"f">>}, {"x"}, {""}, {0}))
    \cup KVSReqs({"lock", "unlock"}, DirEntries({<<"f">>}, {"x"}, {"a"}, {0}))
AllSessionReqs ==
    SessionCreateReqs({"a"}, {"n1"}, {{"c1"}}, {SessionKeysDelete})
    \cup SessionCreateReqs({"a"}, {"n1"}, {{}}, {""})
    \cup SessionOpReqs({"destroy", "bogus"}, {"a"})
Next ==
    \/ Register(AllRegisterReqs)
    \/ Deregister(DeregisterReqs({"n1"}, {"", "s1"}, {"", "c1"}))
    \/ KVS(AllKVSReqs)
    \/ Session(AllSessionReqs)
    \/ ACL(ACLReqs({"set", "delete", "bogus"}, {"acl1"}, {"r1"}))
    \/ Tombstone(TombstoneReqs({"reap", "bogus"}, {MaxIndex}))

Spec == Init /\ [][Next]_vars

(***************************************************************************)
(* Index rows.                                                             *)
(***************************************************************************)
\* The ModifyIndex of every row (or tombstone) now in table t.
RowIndexes(st, t) ==
    CASE t = "nodes" -> ModifyIndexes(st.nodes, DOMAIN st.nodes)
      [] t = "services" -> ModifyIndexes(st.services, DOMAIN st.services)
      [] t = "checks" -> ModifyIndexes(st.checks, DOMAIN st.checks)
      [] t = "sessions" -> ModifyIndexes(st.sessions, DOMAIN st.sessions)
      [] t = "kvs" -> ModifyIndexes(st.kvs, DOMAIN st.kvs)
                      \cup {st.tombstones[k] : k \in DOMAIN st.tombstones}
      [] t = "acls" -> ModifyIndexes(st.acls, DOMAIN st.acls)

IndexRowsBound ==
    \A t \in Tables :
        /\ \A i \in RowIndexes(state, t) : i <= state.index[t]
        /\ state.index[t] <= cmd.Index
IndexRowsKeep == \A t \in Tables : state'.index[t] >= state.index[t]

\* C1: for every table, the index row is at least the ModifyIndex of every
\* row and tombstone written to the table (it covers the rows now stored and
\* never moves back, so it covers the removed ones too) and at most the index
\* of the latest applied command.
C1_IndexRows == [](IndexRowsBound) /\ [][IndexRowsKeep]_vars

\* Every table has been written, one of them by a command older than the
\* latest, and a removed key has left its tombstone.
C1_Witness ==
    /\ \A t \in Tables : state.index[t] > 0
    /\ \E t \in Tables : state.index[t] < cmd.Index
    /\ DOMAIN state.tombstones # {}

(***************************************************************************)
(* SpecKV: the key/value commands and the tombstone reaper over a key, a   *)
(* key below it and a key beside it.                                       *)
(***************************************************************************)
\* Keys are character sequences, so that "prefix of" is the string relation.
KVKeys == {<<"f">>, <<"f", "b">>, <<"g">>}
KVPrefixes == {<<>>, <<"f">>, <<"f", "b">>, <<"g">>}
KVOnlyReqs ==
    KVSReqs({"set", "delete"}, DirEntries(KVKeys, {"x"}, {""}, {0}))
    \cup KVSReqs({"delete-tree"}, DirEntries({<<"f">>}, {"x"}, {""}, {0}))
    \cup KVSReqs({"delete-cas"}, DirEntries({<<"f", "b">>}, {"x"}, {""}, {2}))
NextKV ==
    \/ KVS(KVOnlyReqs)
    \/ Tombstone(TombstoneReqs({"reap"}, {2, MaxIndex}))

SpecKV == Init /\ [][NextKV]_vars

\* One step against the answers of KVSList, for every prefix.
TombstonesUnder(st, p) == {k \in DOMAIN st.tombstones : HasPrefix(k, p)}
C3_Step ==
    \A p \in KVPrefixes :
        LET before == KVSList(state, p)
            after == KVSList(state', p)
            removed == (DOMAIN before.res) \ (DOMAIN after.res)
        IN /\ removed # {} =>
                /\ after.idx = cmd'.Index
                /\ after.idx > before.idx
                /\ removed \subseteq DOMAIN state'.tombstones
           /\ (/\ cmd'.Type = TombstoneRequestType
               /\ TombstonesUnder(state, p) # {}
               /\ TombstonesUnder(state', p) = {}) =>
                /\ after.res = before.res
                /\ after.idx = SetMax(ModifyIndexes(state'.kvs, DOMAIN after.res))
                /\ after.idx <= before.idx

\* C3: KVSList(prefix) answers with the highest of the ModifyIndexes of the
\* live entries under the prefix and the tombstones under it: a step that
\* removes keys under the prefix makes the answer's index the step's index
\* and drops the keys; a reap that leaves no tombstone under the prefix makes
\* it the highest ModifyIndex of the entries that remain, 0 when none does.
C3_KVSListIndex == [][C3_Step]_vars

\* A key below "f" was removed above every live entry and its tombstone has
\* been reaped while another entry under "f" lives on.
C3_Witness ==
    /\ cmd.Type = TombstoneRequestType
    /\ DOMAIN state.tombstones = {}
    /\ DOMAIN KVSList(state, <<"f">>).res # {}
    /\ state.index["kvs"] > KVSList(state, <<>>).idx

(***************************************************************************)
(* SpecCAS: set, check-and-set and delete on two keys, driven as the       *)
(* store's own callers drive it, with indexes from 0.                      *)
(***************************************************************************)
CASKeys == {<<"f">>, <<"g">>}
CASReqs ==
    KVSReqs({"set", "delete"}, DirEntries(CASKeys, {"x"}, {""}, {0}))
    \cup KVSReqs({"cas"}, DirEntries(CASKeys, {"y"}, {""}, 0 .. MaxIndex))
NextCAS == KVS(CASReqs)

SpecCAS == InitFromZero /\ [][NextCAS]_vars

\* The latest step was a check-and-set of the log.
IsCAS(c) == c.Call = "Apply" /\ c.Type = KVSRequestType /\ c.Req.Op = "cas"

\* What a check-and-set step does, given when it is to succeed.
CASStep(succeeds(_, _)) ==
    IsCAS(cmd') =>
        LET e == cmd'.Req.DirEnt
            ok == succeeds(state, e)
        IN /\ resp' = Bool(ok)
           /\ ~ok => /\ state'.kvs = state.kvs
                      /\ state'.index["kvs"] = state.index["kvs"]
           /\ ok => /\ e.Key \in DOMAIN state'.kvs
                     /\ state'.kvs[e.Key].ModifyIndex = cmd'.Index
                     /\ state'.kvs[e.Key].Value = e.Value

\* The condition as written: a stored ModifyIndex of 0 matches a request's 0.
CASAsWritten(st, e) ==
    \/ e.ModifyIndex = 0 /\ e.Key \notin DOMAIN st.kvs
    \/ e.Key \in DOMAIN st.kvs /\ st.kvs[e.Key].ModifyIndex = e.ModifyIndex
\* The condition of the store: a request's 0 only ever means "does not exist".
CASAsStored(st, e) ==
    \/ e.ModifyIndex = 0 /\ e.Key \notin DOMAIN st.kvs
    \/ /\ e.ModifyIndex # 0
       /\ e.Key \in DOMAIN st.kvs
       /\ st.kvs[e.Key].ModifyIndex = e.ModifyIndex

\* C10 as stated: KVSSetCAS returns true exactly when (ModifyIndex = 0 and the
\* key does not exist) or (the key exists and its stored ModifyIndex equals
\* the request's), a stored 0 included; false changes neither the kvs table
\* nor its index row and is no error; true stores the entry at the index.
C10_AsStated == [][CASStep(CASAsWritten)]_vars

\* C10: KVSSetCAS returns true exactly when (ModifyIndex = 0 and the key does
\* not exist) or (ModifyIndex # 0, the key exists and its stored ModifyIndex
\* equals the request's); false changes neither the kvs table nor its index
\* row and is no error; true stores the entry with ModifyIndex = index.
C10_SetCAS == [][CASStep(CASAsStored)]_vars

\* A check-and-set with ModifyIndex 0 has just been refused on an entry whose
\* stored ModifyIndex is 0, after another one succeeded on a matching index.
C10_Witness ==
    /\ IsCAS(cmd)
    /\ cmd.Req.DirEnt.ModifyIndex = 0
    /\ resp = Bool(FALSE)
    /\ <<"f">> \in DOMAIN state.kvs
    /\ state.kvs[<<"f">>].ModifyIndex = 0
    /\ <<"g">> \in DOMAIN state.kvs
    /\ state.kvs[<<"g">>].Value = "y"
    /\ state.kvs[<<"g">>].CreateIndex < state.kvs[<<"g">>].ModifyIndex

(***************************************************************************)
(* SpecLock: one node with a service and a check, two sessions, two keys:  *)
(* locks taken, released, refused, and lost with their session.            *)
(***************************************************************************)
LockCheck(status, sid) ==
    [Node |-> "n1", CheckID |-> "c1", Status |-> status, ServiceID |-> sid]
LockRegisterReqs ==
    {[Node |-> "n1", Address |-> "1.1.1.1", Service |-> None, Check |-> None,
      Checks |-> <<>>],
     [Node |-> "n1", Address |-> "1.1.1.1", Service |-> None,
      Check |-> LockCheck(HealthPassing, ""), Checks |-> <<>>],
     [Node |-> "n1", Address |-> "1.1.1.1", Service |-> None,
      Check |-> LockCheck(HealthCritical, ""), Checks |-> <<>>],
     [Node |-> "n1", Address |-> "1.1.1.1", Service |-> NodeServiceOf("s1"),
      Check |-> LockCheck(HealthPassing, "s1"), Checks |-> <<>>]}
LockDeregisterReqs ==
    {[Node |-> "n1", ServiceID |-> "", CheckID |-> ""],
     [Node |-> "n1", ServiceID |-> "s1", CheckID |-> ""],
     [Node |-> "n1", ServiceID |-> "", CheckID |-> "c1"]}
LockSessionReqs ==
    SessionCreateReqs({"a"}, {"n1"}, {{}, {"c1"}}, {"", SessionKeysDelete})
    \cup SessionCreateReqs({"b"}, {"n1"}, {{}}, {SessionKeysRelease})
    \cup SessionOpReqs({"destroy"}, {"a", "b"})
LockKVSReqs ==
    KVSReqs({"lock", "unlock"}, DirEntries({<<"f">>}, {"x"}, {"a", "b"}, {0}))
    \cup KVSReqs({"lock"}, DirEntries({<<"g">>}, {"x"}, {"a"}, {0}))
    \cup KVSReqs({"set", "delete"}, DirEntries({<<"f">>}, {"y"}, {""}, {0}))
NextLock ==
    \/ Register(LockRegisterReqs)
    \/ Deregister(LockDeregisterReqs)
    \/ Session(LockSessionReqs)
    \/ KVS(LockKVSReqs)

SpecLock == Init /\ [][NextLock]_vars

\* The latest step was the K/V command op of the log.
IsKVS(c, op) == c.Call = "Apply" /\ c.Type = KVSRequestType /\ c.Req.Op = op
\* The session holding the key's lock, "" when nobody does.
HolderOf(st, k) == IF k \in DOMAIN st.kvs THEN st.kvs[k].Session ELSE ""

\* A lock asked by a live session on a key another session holds is refused
\* and changes nothing.
LockRefused ==
    (/\ IsKVS(cmd', "lock")
     /\ cmd'.Req.DirEnt.Session \in DOMAIN state.sessions
     /\ HolderOf(state, cmd'.Req.DirEnt.Key) \notin {"", cmd'.Req.DirEnt.Session})
    => /\ resp' = Bool(FALSE)
       /\ state' = state
\* A held key loses or changes its holder only in the ways allowed.
HolderKeeps(removalAllowed) ==
    \A k \in DOMAIN state.kvs :
        LET h == state.kvs[k].Session
        IN (h # "" /\ HolderOf(state', k) # h) =>
              \/ /\ IsKVS(cmd', "unlock")
                 /\ cmd'.Req.DirEnt.Key = k
                 /\ cmd'.Req.DirEnt.Session = h
              \/ h \notin DOMAIN state'.sessions
              \/ /\ removalAllowed
                 /\ k \notin DOMAIN state'.kvs
                 /\ \E op \in {"delete", "delete-cas", "delete-tree"} : IsKVS(cmd', op)

Destroyed == (DOMAIN state.sessions) \ (DOMAIN state'.sessions)
\* The prefixes of a key.
PrefixesOf(k) == {SubSeq(k, 1, n) : n \in 0 .. Len(k)}

\* One step against the behaviour of each session it destroys.
C6_Step ==
    \A id \in Destroyed :
        \A k \in HeldBy(state, id) :
            IF state.sessions[id].Behavior = SessionKeysDelete
            THEN /\ k \notin DOMAIN state'.kvs
                 /\ k \in DOMAIN state'.tombstones
                 /\ state'.tombstones[k] = cmd'.Index
                 /\ \A p \in PrefixesOf(k) : KVSList(state', p).idx = cmd'.Index
            ELSE /\ k \in DOMAIN state'.kvs
                 /\ state'.kvs[k].Session = ""
                 /\ state'.kvs[k].LockIndex = state.kvs[k].LockIndex
                 /\ state'.kvs[k].LockIndex > 0

\* C6: a step that destroys a session, by a destroy command or by
\* invalidation, applies the session's behaviour to every entry it holds:
\* release keeps the entry, empties its session field and keeps its
\* LockIndex; delete removes the entry and leaves a tombstone at the step's
\* index, which KVSList returns for every prefix covering the key.
C6_SessionDestroy == [][C6_Step]_vars

\* The node's deregistration has just destroyed a session of behaviour
\* delete that held "f": the tombstone carries the deregistration's index.
C6_Witness ==
    /\ cmd.Type = DeregisterRequestType
    /\ cmd.Req.ServiceID = "" /\ cmd.Req.CheckID = ""
    /\ state.index["sessions"] = cmd.Index
    /\ <<"f">> \in DOMAIN state.tombstones
    /\ state.tombstones[<<"f">>] = cmd.Index

\* C7: every session's node exists, and every check the session lists exists
\* on that node and is not critical.
C7_SessionParents ==
    \A id \in DOMAIN state.sessions :
        LET sess == state.sessions[id]
        IN /\ sess.Node \in DOMAIN state.nodes
           /\ \A c \in sess.Checks :
                 /\ <<sess.Node, c>> \in DOMAIN state.checks
                 /\ state.checks[<<sess.Node, c>>].Status # HealthCritical

\* The deregistration of service s1 has just removed the check attached to
\* it and with it the session that listed the check; session b lives on.
C7_Witness ==
    /\ cmd.Type = DeregisterRequestType
    /\ cmd.Req.ServiceID = "s1"
    /\ state.index["checks"] = cmd.Index
    /\ state.index["sessions"] = cmd.Index
    /\ DOMAIN state.sessions = {"b"}

(***************************************************************************)
(* SpecCatalog: two nodes, a service, two checks and a session, written    *)
(* through registrations and deregistrations of the log and through the    *)
(* store's EnsureService and EnsureCheck.                                  *)
(***************************************************************************)
CatCheck(node, cid, sid) ==
    [Node |-> node, CheckID |-> cid, Status |-> HealthPassing, ServiceID |-> sid]
CatRegister(node, svc, chk) ==
    [Node |-> node, Address |-> "1.1.1.1", Service |-> svc, Check |-> chk,
     Checks |-> <<>>]
CatRegisterReqs ==
    {CatRegister("n1", None, None),
     CatRegister("n1", None, CatCheck("n1", "c1", "")),
     CatRegister("n1", None, CatCheck("n1", "c2", "")),
     CatRegister("n1", NodeServiceOf("s1"), CatCheck("n1", "c1", "s1")),
     CatRegister("n2", None, None),
     CatRegister("n2", NodeServiceOf("s1"), CatCheck("n2", "c1", "s1"))}
CatDeregisterReqs ==
    {[Node |-> "n1", ServiceID |-> "", CheckID |-> ""],
     [Node |-> "n2", ServiceID |-> "", CheckID |-> ""],
     [Node |-> "n1", ServiceID |-> "s1", CheckID |-> ""],
     [Node |-> "n1", ServiceID |-> "", CheckID |-> "c1"],
     [Node |-> "n1", ServiceID |-> "", CheckID |-> "c2"]}
CatSessionReqs ==
    SessionCreateReqs({"a"}, {"n1"}, {{}}, {""})
    \cup SessionOpReqs({"destroy"}, {"a"})
NextCatalog ==
    \/ Register(CatRegisterReqs)
    \/ Deregister(CatDeregisterReqs)
    \/ Session(CatSessionReqs)
    \/ CallEnsureService({"n1", "n2"}, {"s1"})
    \/ CallEnsureCheck({CatCheck("n1", "c1", ""), CatCheck("n2", "c1", "s1")})

SpecCatalog == Init /\ [][NextCatalog]_vars

\* Every read of the store with one argument of the small universe: the
\* operation, its argument, and what it returns before and after the step.
Reads(st) ==
    {[op |-> "Nodes", arg |-> "", out |-> Nodes(st)],
     [op |-> "SessionList", arg |-> "", out |-> SessionList(st)],
     [op |-> "ACLList", arg |-> "", out |-> ACLList(st)]}
    \cup {[op |-> "NodeServices", arg |-> n, out |-> NodeServices(st, n)] : n \in NodeNames}
    \cup {[op |-> "NodeChecks", arg |-> n, out |-> NodeChecks(st, n)] : n \in NodeNames}
    \cup {[op |-> "NodeSessions", arg |-> n, out |-> NodeSessions(st, n)] : n \in NodeNames}
    \cup {[op |-> "ServiceChecks", arg |-> x, out |-> ServiceChecks(st, x)] : x \in ServiceIDs}
    \cup {[op |-> "CheckServiceNodes", arg |-> x, out |-> CheckServiceNodes(st, x)] :
             x \in ServiceIDs}
    \cup {[op |-> "ChecksInState", arg |-> x, out |-> ChecksInState(st, x)] :
             x \in {HealthAny, HealthPassing, HealthCritical}}
    \cup {[op |-> "KVSList", arg |-> p, out |-> KVSList(st, p)] : p \in KVPrefixes}
    \cup {[op |-> "KVSListKeys", arg |-> p, out |-> KVSListKeys(st, p)] : p \in KVPrefixes}

\* One step against the contract, for every read.
C2_Step ==
    cmd'.Type # TombstoneRequestType =>
        \A b \in Reads(state), a \in Reads(state') :
            (a.op = b.op /\ a.arg = b.arg /\ a.out.res # b.out.res)
                => a.out.idx > b.out.idx

\* C2 as stated: for every read and every write other than ReapTombstones,
\* if the write changes what the read returns then the index the read returns
\* after the write is strictly greater than the one it returned before.
C2_MonotonicIndex == [][C2_Step]_vars

\* Check c2 of node n1, written at index 2 after check c1 at index 1, has
\* just been deregistered at index 3: NodeChecks of n1 answers with c1 alone
\* and index 1, below the 2 it answered with before.
C2_Witness ==
    /\ cmd.Type = DeregisterRequestType
    /\ cmd.Req = [Node |-> "n1", ServiceID |-> "", CheckID |-> "c2"]
    /\ cmd.Index = 3
    /\ state.index["checks"] = 3
    /\ DOMAIN NodeChecks(state, "n1").res = {<<"n1", "c1">>}
    /\ NodeChecks(state, "n1").idx = 1

\* Parents of the catalog's rows.
ParentsExist ==
    /\ \A k \in DOMAIN state.services : k[1] \in DOMAIN state.nodes
    /\ \A k \in DOMAIN state.checks :
          /\ k[1] \in DOMAIN state.nodes
          /\ state.checks[k].ServiceID # "" =>
                <<k[1], state.checks[k].ServiceID>> \in DOMAIN state.services
\* What EnsureService and EnsureCheck answer when a parent is missing.
EnsureErrors ==
    /\ (cmd'.Call = "EnsureService" /\ cmd'.Req.Node \notin DOMAIN state.nodes)
          => resp' = Error(ErrMissingNode) /\ state' = state
    /\ (cmd'.Call = "EnsureCheck" /\ cmd'.Req.Node \notin DOMAIN state.nodes)
          => resp' = Error(ErrMissingNode) /\ state' = state
    /\ (/\ cmd'.Call = "EnsureCheck"
        /\ cmd'.Req.Node \in DOMAIN state.nodes
        /\ cmd'.Req.ServiceID # ""
        /\ <<cmd'.Req.Node, cmd'.Req.ServiceID>> \notin DOMAIN state.services)
          => resp' = Error(ErrMissingService) /\ state' = state

\* C8: every service's node exists, every check's node exists and every
\* check with a service id has that service on its node; EnsureService on an
\* unknown node fails with ErrMissingNode, EnsureCheck fails with
\* ErrMissingNode on an unknown node and with ErrMissingService on an unknown
\* service id.
C8_Parents == [](ParentsExist) /\ [][EnsureErrors]_vars

\* EnsureCheck has just been refused for a service its node does not run,
\* while the other node runs that service with a check attached.
C8_Witness ==
    /\ cmd.Call = "EnsureCheck"
    /\ resp = Error(ErrMissingService)
    /\ cmd.Req.Node \in DOMAIN state.nodes
    /\ \E k \in DOMAIN state.checks : state.checks[k].ServiceID # ""

\* The rows of table tbl (keyed by <<node, id>>) that are not node x's.
OthersOf(tbl, x) == Restrict(tbl, {k \in DOMAIN tbl : k[1] # x})

\* One step against the deregistration of a node.
C9_Step ==
    LET x == cmd'.Req.Node
    IN (/\ cmd'.Call = "Apply"
        /\ cmd'.Type = DeregisterRequestType
        /\ cmd'.Req.ServiceID = ""
        /\ cmd'.Req.CheckID = ""
        /\ x \in DOMAIN state.nodes)
       => /\ resp' = Nil
          /\ x \notin DOMAIN state'.nodes
          /\ \A k \in DOMAIN state'.services \cup DOMAIN state'.checks : k[1] # x
          /\ SessionsOfNode(state', x) = {}
          /\ state'.nodes = Restrict(state.nodes, (DOMAIN state.nodes) \ {x})
          /\ state'.services = OthersOf(state.services, x)
          /\ state'.checks = OthersOf(state.checks, x)
          /\ state'.sessions =
                Restrict(state.sessions,
                         {id \in DOMAIN state.sessions : state.sessions[id].Node # x})
          /\ ((\E k \in DOMAIN state.services : k[1] = x)
               /\ (\E k \in DOMAIN state.checks : k[1] = x))
                => /\ state'.index["nodes"] = cmd'.Index
                   /\ state'.index["services"] = cmd'.Index
                   /\ state'.index["checks"] = cmd'.Index

\* C9: after the deregistration of an existing node X no node, service,
\* check or session of X remains, the rows of every other node are as
\* before, and if X had a service and a check the index rows of nodes,
\* services and checks are all the deregistration's index.
C9_DeleteNode == [][C9_Step]_vars

\* Node n1 has just been deregistered with its service, check and session,
\* and node n2 still has its service and check.
C9_Witness ==
    /\ cmd.Type = DeregisterRequestType
    /\ cmd.Req = [Node |-> "n1", ServiceID |-> "", CheckID |-> ""]
    /\ \A t \in {"nodes", "services", "checks", "sessions"} : state.index[t] = cmd.Index
    /\ DOMAIN state.nodes = {"n2"}
    /\ DOMAIN state.services = {<<"n2", "s1">>}
    /\ DOMAIN state.checks = {<<"n2", "c1">>}

(***************************************************************************)
(* SpecDeleteCAS: set and check-and-delete on two keys, with indexes from  *)
(* 0 as the store's own callers give them.                                 *)
(***************************************************************************)
DeleteCASReqs ==
    KVSReqs({"set"}, DirEntries(CASKeys, {"x"}, {""}, {0}))
    \cup KVSReqs({"delete-cas"}, DirEntries(CASKeys, {"x"}, {""}, 0 .. MaxIndex))
NextDeleteCAS == KVS(DeleteCASReqs)

SpecDeleteCAS == InitFromZero /\ [][NextDeleteCAS]_vars

\* One check-and-delete step against its three outcomes.
C11_Step ==
    IsKVS(cmd', "delete-cas") =>
        LET e == cmd'.Req.DirEnt
            exists == e.Key \in DOMAIN state.kvs
            match == exists /\ state.kvs[e.Key].ModifyIndex = e.ModifyIndex
        IN /\ resp' = Bool(~exists \/ match)
           /\ (exists /\ ~match) => state' = state
           /\ match => /\ e.Key \notin DOMAIN state'.kvs
                        /\ state'.kvs = Restrict(state.kvs, (DOMAIN state.kvs) \ {e.Key})
                        /\ state'.index["kvs"] = cmd'.Index
           /\ ~exists => /\ state'.kvs = state.kvs
                          /\ state'.index["kvs"] = state.index["kvs"]

\* C11: KVSDeleteCAS returns true exactly when the key does not exist or its
\* stored ModifyIndex equals the given one; a mismatch returns false without
\* error and leaves the entry and the kvs index row untouched; a match
\* removes the entry and sets the kvs index row to the index; on a key that
\* does not exist it returns true and the kvs index row stays.
C11_DeleteCAS == [][C11_Step]_vars

\* A check-and-delete of "f" has just returned true on the absent key, below
\* the index of its removal by a matching one, after a mismatch on "g" left
\* that entry in place.
C11_Witness ==
    /\ IsKVS(cmd, "delete-cas")
    /\ cmd.Req.DirEnt.Key = <<"f">>
    /\ resp = Bool(TRUE)
    /\ <<"f">> \in DOMAIN state.tombstones
    /\ state.tombstones[<<"f">>] < cmd.Index
    /\ state.index["kvs"] = state.tombstones[<<"f">>]
    /\ <<"g">> \in DOMAIN state.kvs

(***************************************************************************)
(* SpecRegister: registrations of two nodes that succeed and registrations *)
(* that fail in their service-less check, their top-level check or a check *)
(* of Checks[], with a session listing check c1.                           *)
(***************************************************************************)
RegCheck(node, cid, status, sid) ==
    [Node |-> node, CheckID |-> cid, Status |-> status, ServiceID |-> sid]
RegRequest(node, svc, chk, chks) ==
    [Node |-> node, Address |-> "1.1.1.1", Service |-> svc, Check |-> chk,
     Checks |-> chks]
RegisterOnlyReqs ==
    {RegRequest("n1", None, None, <<>>),
     RegRequest("n1", NodeServiceOf("s1"), None, <<>>),
     RegRequest("n1", None, RegCheck("n1", "c1", HealthPassing, ""), <<>>),
     \* fails unless n1 runs s1
     RegRequest("n1", None, RegCheck("n1", "c1", HealthPassing, "s1"), <<>>),
     \* the same check twice: Checks[] comes after Check
     RegRequest("n1", None, RegCheck("n1", "c1", HealthPassing, ""),
                <<RegCheck("n1", "c1", HealthCritical, "")>>),
     \* fails in Checks[] after the node, the service and two checks
     RegRequest("n1", NodeServiceOf("s1"), RegCheck("n1", "c1", HealthCritical, "s1"),
                <<RegCheck("n1", "c2", HealthPassing, ""),
                  RegCheck("n1", "c3", HealthPassing, "s2")>>),
     \* fails in the top-level check after the node and the service
     RegRequest("n2", NodeServiceOf("s1"), RegCheck("n2", "c1", HealthPassing, "s2"),
                <<>>),
     RegRequest("n2", NodeServiceOf("s1"), None,
                <<RegCheck("n2", "c1", HealthPassing, "s1")>>)}
NextRegister ==
    \/ Register(RegisterOnlyReqs)
    \/ Deregister({[Node |-> "n1", ServiceID |-> "", CheckID |-> ""],
                   [Node |-> "n1", ServiceID |-> "s1", CheckID |-> ""]})
    \/ Session(SessionCreateReqs({"a"}, {"n1"}, {{"c1"}}, {SessionKeysDelete}))
    \/ KVS(KVSReqs({"lock"}, DirEntries({<<"f">>}, {"x"}, {"a"}, {0})))

SpecRegister == Init /\ [][NextRegister]_vars

\* The checks of a registration in the order they are written.
ChecksOf(req) == (IF req.Check = None THEN <<>> ELSE <<req.Check>>) \o req.Checks
\* The registration has a check whose service its node does not run, the
\* service of the registration itself counted in.
MissingServiceIn(st, req) ==
    \E i \in DOMAIN ChecksOf(req) :
        LET hc == ChecksOf(req)[i]
        IN /\ hc.ServiceID # ""
           /\ <<hc.Node, hc.ServiceID>> \notin DOMAIN st.services
           /\ (req.Service = None \/ hc.Node # req.Node \/ hc.ServiceID # req.Service.ID)

\* One registration step: all of it, or none of it.
C12_Step ==
    (cmd'.Call = "Apply" /\ cmd'.Type = RegisterRequestType) =>
        LET req == cmd'.Req
            hcs == ChecksOf(req)
        IN IF MissingServiceIn(state, req)
           THEN /\ resp' = Error(ErrMissingService)
                /\ state' = state
           ELSE /\ resp' = Nil
                /\ req.Node \in DOMAIN state'.nodes
                /\ state'.nodes[req.Node].ModifyIndex = cmd'.Index
                /\ req.Service # None =>
                      /\ <<req.Node, req.Service.ID>> \in DOMAIN state'.services
                      /\ state'.services[<<req.Node, req.Service.ID>>].ModifyIndex
                            = cmd'.Index
                /\ \A i \in DOMAIN hcs :
                      LET key == <<hcs[i].Node, hcs[i].CheckID>>
                      IN /\ key \in DOMAIN state'.checks
                         /\ state'.checks[key].ModifyIndex = cmd'.Index
                         /\ (\A j \in DOMAIN hcs : j > i => hcs[j].CheckID # hcs[i].CheckID)
                               => state'.checks[key].Status = hcs[i].Status

\* C12: EnsureRegistration writes the node, then the service, then the
\* top-level check, then each check of Checks[], all at the command's index;
\* if a check names a service its node does not run, the call returns the
\* error and the store (every table and every index row) is as before it.
C12_RegistrationAtomic == [][C12_Step]_vars

\* A registration of n1 with service s1, a critical check c1 and two more
\* checks has just failed on the last of them: the session that listed c1
\* still lives and holds its key, s1 is not registered, and no index row
\* carries the command's index.
C12_Witness ==
    /\ cmd.Type = RegisterRequestType
    /\ Len(cmd.Req.Checks) = 2
    /\ resp = Error(ErrMissingService)
    /\ "n1" \in DOMAIN state.nodes
    /\ <<"n1", "s1">> \notin DOMAIN state.services
    /\ <<"n1", "c2">> \notin DOMAIN state.checks
    /\ HolderOf(state, <<"f">>) = "a"
    /\ \A t \in Tables : state.index[t] < cmd.Index

(***************************************************************************)
(* SpecErrors: every kind of write, each with requests that meet their     *)
(* preconditions and requests that do not.                                 *)
(***************************************************************************)
ErrSession(id, node, checks, behavior) ==
    [Op |-> "create",
     Session |-> [ID |-> id, Node |-> node, Checks |-> checks, Behavior |-> behavior]]
ErrRegisterReqs ==
    {RegRequest("n1", None, None, <<>>),
     RegRequest("n1", None, RegCheck("n1", "c1", HealthPassing, ""), <<>>),
     RegRequest("n1", None, RegCheck("n1", "c1", HealthPassing, "s1"), <<>>)}
ErrSessionReqs ==
    {ErrSession("a", "n1", {}, ""),
     ErrSession("", "n1", {}, ""),
     ErrSession("a", "n1", {}, "nope"),
     ErrSession("a", "n2", {}, ""),
     ErrSession("a", "n1", {"c1"}, "")}
    \cup SessionOpReqs({"destroy", "bogus"}, {"a"})
ErrKVSReqs ==
    KVSReqs({"set", "bogus"}, DirEntries({<<"f">>}, {"x"}, {""}, {0}))
    \cup KVSReqs({"lock"}, DirEntries({<<"f">>}, {"x"}, {"", "a"}, {0}))
    \cup KVSReqs({"unlock"}, DirEntries({<<"f">>}, {"x"}, {""}, {0}))
NextErrors ==
    \/ Register(ErrRegisterReqs)
    \/ Deregister({[Node |-> "n1", ServiceID |-> "", CheckID |-> ""]})
    \/ Session(ErrSessionReqs)
    \/ KVS(ErrKVSReqs)
    \/ ACL(ACLReqs({"set", "delete", "bogus"}, {"acl1"}, {"r1"})
           \cup ACLReqs({"set"}, {""}, {"r1"}))
    \/ Tombstone(TombstoneReqs({"reap", "bogus"}, {MaxIndex}))
    \/ CallEnsureService({"n1", "n2"}, {"s1"})
    \/ CallEnsureCheck({CatCheck("n1", "c1", "s1"), CatCheck("n2", "c1", "")})

SpecErrors == Init /\ [][NextErrors]_vars

\* The write c, made in store st, fails one of the preconditions.
FailsPrecondition(st, c) ==
    LET req == c.Req
        applied(t) == c.Call = "Apply" /\ c.Type = t
    IN \/ applied(RegisterRequestType) /\ MissingServiceIn(st, req)
       \/ c.Call = "EnsureService" /\ req.Node \notin DOMAIN st.nodes
       \/ /\ c.Call = "EnsureCheck"
          /\ \/ req.Node \notin DOMAIN st.nodes
             \/ /\ req.ServiceID # ""
                /\ <<req.Node, req.ServiceID>> \notin DOMAIN st.services
       \/ /\ applied(SessionRequestType)
          /\ \/ req.Op \notin {"create", "destroy"}
             \/ /\ req.Op = "create"
                /\ \/ req.Session.ID = ""
                   \/ req.Session.Behavior \notin {"", SessionKeysRelease, SessionKeysDelete}
                   \/ req.Session.Node \notin DOMAIN st.nodes
                   \/ \E x \in req.Session.Checks :
                         <<req.Session.Node, x>> \notin DOMAIN st.checks
       \/ /\ applied(KVSRequestType)
          /\ \/ req.Op \notin {"set", "delete", "delete-cas", "delete-tree", "cas",
                                "lock", "unlock"}
             \/ req.Op \in {"lock", "unlock"} /\ req.DirEnt.Session = ""
       \/ /\ applied(ACLRequestType)
          /\ \/ req.Op \notin {"set", "force-set", "delete"}
             \/ req.Op \in {"set", "force-set"} /\ req.ACL.ID = ""
       \/ applied(TombstoneRequestType) /\ req.Op # "reap"

\* One step: a failed precondition gives an error, an error changes nothing.
C13_Step ==
    /\ FailsPrecondition(state, cmd') => resp'.kind = "error"
    /\ resp'.kind = "error" => state' = state

\* C13: a write that fails a precondition (missing node, service or check,
\* empty session id, empty ACL id, unknown session behaviour, unknown K/V,
\* session, ACL or tombstone op) returns an error, and a write that returns
\* an error leaves every table and every index row as before the call.
C13_ErrorsChangeNothing == [][C13_Step]_vars

\* A session naming a check that does not exist has just been refused in a
\* store where the node, a key, an ACL and another session exist.
C13_Witness ==
    /\ cmd.Type = SessionRequestType
    /\ cmd.Req.Op = "create"
    /\ resp = Error(ErrMissingCheck)
    /\ "n1" \in DOMAIN state.nodes
    /\ DOMAIN state.kvs # {}
    /\ DOMAIN state.acls # {}
    /\ \A t \in Tables : state.index[t] < cmd.Index

(***************************************************************************)
(* SpecDeletes: every delete of the log, on entities that exist and on     *)
(* entities that do not.                                                   *)
(***************************************************************************)
DelRegisterReqs ==
    {RegRequest("n1", NodeServiceOf("s1"), RegCheck("n1", "c1", HealthPassing, "s1"),
                <<>>),
     RegRequest("n1", None, RegCheck("n1", "c2", HealthPassing, ""), <<>>)}
DelDeregisterReqs ==
    {[Node |-> "n1", ServiceID |-> "", CheckID |-> ""],
     [Node |-> "n1", ServiceID |-> "s1", CheckID |-> ""],
     [Node |-> "n1", ServiceID |-> "", CheckID |-> "c1"],
     [Node |-> "n1", ServiceID |-> "", CheckID |-> "c2"]}
DelKVSReqs ==
    KVSReqs({"set"}, DirEntries({<<"f">>, <<"f", "b">>}, {"x"}, {""}, {0}))
    \cup KVSReqs({"delete"}, DirEntries({<<"f">>}, {"x"}, {""}, {0}))
    \cup KVSReqs({"delete-tree"}, DirEntries({<<"f">>, <<"g">>}, {"x"}, {""}, {0}))
NextDeletes ==
    \/ Register(DelRegisterReqs)
    \/ Deregister(DelDeregisterReqs)
    \/ KVS(DelKVSReqs)
    \/ Session(SessionCreateReqs({"a"}, {"n1"}, {{}}, {""})
               \cup SessionOpReqs({"destroy"}, {"a"}))
    \/ ACL(ACLReqs({"set", "delete"}, {"acl1"}, {"r1"}))

SpecDeletes == Init /\ [][NextDeletes]_vars

\* The command is one of the deletes.
IsDelete(c) ==
    /\ c.Call = "Apply"
    /\ \/ c.Type = DeregisterRequestType
       \/ c.Type = KVSRequestType /\ c.Req.Op \in {"delete", "delete-tree"}
       \/ c.Type = SessionRequestType /\ c.Req.Op = "destroy"
       \/ c.Type = ACLRequestType /\ c.Req.Op = "delete"
\* What the delete c is to remove exists in store st.
TargetExists(st, c) ==
    CASE c.Type = DeregisterRequestType ->
            IF c.Req.ServiceID # ""
            THEN <<c.Req.Node, c.Req.ServiceID>> \in DOMAIN st.services
            ELSE IF c.Req.CheckID # ""
            THEN <<c.Req.Node, c.Req.CheckID>> \in DOMAIN st.checks
            ELSE c.Req.Node \in DOMAIN st.nodes
      [] c.Type = KVSRequestType ->
            IF c.Req.Op = "delete" THEN c.Req.DirEnt.Key \in DOMAIN st.kvs
            ELSE \E k \in DOMAIN st.kvs : HasPrefix(k, c.Req.DirEnt.Key)
      [] c.Type = SessionRequestType -> c.Req.Session.ID \in DOMAIN st.sessions
      [] c.Type = ACLRequestType -> c.Req.ACL.ID \in DOMAIN st.acls

\* One delete step, and the same delete once more at every later index.
C14_Step ==
    IsDelete(cmd') =>
        /\ resp' = Nil
        /\ ~TargetExists(state, cmd') => state' = state
        /\ ~TargetExists(state', cmd')
        /\ \A j \in (cmd'.Index + 1) .. (MaxIndex + 1) :
              LET again == Apply(state', [Index |-> j, Type |-> cmd'.Type,
                                          Req |-> cmd'.Req])
              IN again.resp = Nil /\ again.st = state'

\* C14: a delete (of a node, a service, a check, a key, a tree of keys, a
\* session, an ACL) whose target does not exist succeeds and changes neither
\* a table nor an index row; after any delete the target does not exist, so
\* the same delete applied again at a later index leaves the state of the
\* first one.
C14_DeletesIdempotent == [][C14_Step]_vars

\* Node n1, removed with its service and check by the command before, has
\* just been deregistered a second time: the index rows stay at the first
\* deregistration's index, and the key and the ACL are in place.
C14_Witness ==
    /\ cmd.Type = DeregisterRequestType
    /\ cmd.Req = [Node |-> "n1", ServiceID |-> "", CheckID |-> ""]
    /\ DOMAIN state.nodes = {}
    /\ \A t \in {"nodes", "services", "checks"} : state.index[t] = cmd.Index - 1
    /\ DOMAIN state.kvs # {}
    /\ DOMAIN state.acls # {}

(***************************************************************************)
(* Write transactions and table watches.  A write runs in a transaction of *)
(* its own: it writes a private copy of the store and arms the watch of    *)
(* every table it mutates; commit publishes the copy, then the armed       *)
(* watches notify and clear their subscribers; abort drops the copy and    *)
(* the armed watches.                                                      *)
(***************************************************************************)
\* The rows of table t.
TableRows(st, t) ==
    CASE t = "nodes" -> st.nodes
      [] t = "services" -> st.services
      [] t = "checks" -> st.checks
      [] t = "sessions" -> st.sessions
      [] t = "kvs" -> st.kvs
      [] t = "acls" -> st.acls
\* The tables a transaction from store a to store b has mutated: every write
\* of the log stamps its row or its table's index row with a new index.
Armed(a, b) ==
    {t \in Tables : TableRows(a, t) # TableRows(b, t) \/ a.index[t] # b.index[t]}

\* The operation c run as a transaction on store st: the copy as written
\* when it ends, what it returns, whether it ends in an abort, and the
\* tables whose watch it has armed.
RunTxn(st, c) ==
    CASE c.Call = "Apply" /\ c.Type = RegisterRequestType ->
            LET r == ensureRegistrationTxn(st, c.Index, c.Req)
            IN [work |-> r.st, resp |-> RetErr(r).resp, aborted |-> r.err # "",
                armed |-> Armed(st, r.st)]
      [] c.Call = "Apply" /\ c.Type # RegisterRequestType ->
            LET r == Apply(st, [Index |-> c.Index, Type |-> c.Type, Req |-> c.Req])
            IN [work |-> r.st, resp |-> r.resp, aborted |-> r.resp.kind = "error",
                armed |-> Armed(st, r.st)]
      [] c.Call = "ACLRestore" ->
            LET r == ACLRestore(st, c.Req)
            IN [work |-> r.st, resp |-> RetErr(r).resp, aborted |-> r.err # "",
                armed |-> {"acls"}]

LogCmds(type, reqs) == [Call : {"Apply"}, Type : {type}, Req : reqs]
RestoreCmds(acls) == [Call : {"ACLRestore"}, Type : {-1}, Req : acls]

\* The subscribers registered on some table watch.
Registered == UNION {watches[t] : t \in Tables}

\* GetTableWatch(t).Wait(ch): the subscriber registers a fresh channel.
Wait(subs, tbls) ==
    \E s \in subs, t \in tbls :
        /\ s \notin Registered
        /\ watches' = [watches EXCEPT ![t] = @ \cup {s}]
        /\ chan' = [chan EXCEPT ![s] = [Table |-> t, Got |-> 0, Index |-> 0]]
        /\ UNCHANGED <<state, cmd, resp, nextIndex, txn, view, snap, peer>>

\* The writer opens a transaction for the next operation and runs it on its
\* private copy.
TxnBegin(cmds) ==
    \E c0 \in cmds :
        LET c == [Call |-> c0.Call, Type |-> c0.Type, Index |-> nextIndex,
                  Req |-> c0.Req]
            r == RunTxn(state, c)
        IN /\ LogHasRoom
           /\ txn = NoTxn
           /\ txn' = [phase |-> "open", cmd |-> c, work |-> r.work, resp |-> r.resp,
                      aborted |-> r.aborted, armed |-> r.armed]
           /\ nextIndex' = nextIndex + 1
           /\ UNCHANGED <<state, cmd, resp, watches, chan, view, snap, peer>>

\* Commit publishes the copy; the armed watches are still to fire.
TxnCommit ==
    /\ txn.phase = "open"
    /\ ~txn.aborted
    /\ state' = txn.work
    /\ cmd' = txn.cmd
    /\ resp' = txn.resp
    /\ txn' = [txn EXCEPT !.phase = "committed"]
    /\ UNCHANGED <<nextIndex, watches, chan, view, snap, peer>>

\* A faulty TxnAbort that fires the watches the transaction had armed.
TxnAbort_Notifies ==
    /\ txn.phase = "open"
    /\ txn.aborted
    /\ cmd' = txn.cmd
    /\ resp' = txn.resp
    /\ txn' = NoTxn
    /\ chan' = [s \in Subscribers |->
                  IF \E t \in txn.armed : s \in watches[t]
                  THEN [chan[s] EXCEPT !.Got = @ + 1, !.Index = txn.cmd.Index]
                  ELSE chan[s]]
    /\ watches' = [t \in Tables |-> IF t \in txn.armed THEN {} ELSE watches[t]]
    /\ UNCHANGED <<state, nextIndex, view, snap, peer>>
\* Abort drops the copy and the armed watches; the error goes to the caller.
TxnAbort ==
    /\ txn.phase = "open"
    /\ txn.aborted
    /\ cmd' = txn.cmd
    /\ resp' = txn.resp
    /\ txn' = NoTxn
    /\ UNCHANGED <<state, nextIndex, watches, chan, view, snap, peer>>

\* A faulty Notify that keeps the subscribers it has notified.
Notify_KeepsSubscribers ==
    /\ txn.phase = "committed"
    /\ chan' = [s \in Subscribers |->
                  IF \E t \in txn.armed : s \in watches[t]
                  THEN [chan[s] EXCEPT !.Got = @ + 1, !.Index = txn.cmd.Index]
                  ELSE chan[s]]
    /\ txn' = NoTxn
    /\ UNCHANGED <<state, cmd, resp, nextIndex, watches, view, snap, peer>>
\* A faulty Notify that fires as soon as the watches are armed.
Notify_BeforeCommit ==
    /\ txn.phase \in {"open", "committed"}
    /\ ~txn.aborted
    /\ chan' = [s \in Subscribers |->
                  IF \E t \in txn.armed : s \in watches[t]
                  THEN [chan[s] EXCEPT !.Got = @ + 1, !.Index = txn.cmd.Index]
                  ELSE chan[s]]
    /\ watches' = [t \in Tables |-> IF t \in txn.armed THEN {} ELSE watches[t]]
    /\ txn' = IF txn.phase = "open" THEN [txn EXCEPT !.armed = {}] ELSE NoTxn
    /\ UNCHANGED <<state, cmd, resp, nextIndex, view, snap, peer>>
\* Notify: after commit every armed watch notifies each of its subscribers
\* once and forgets them.
Notify ==
    /\ txn.phase = "committed"
    /\ chan' = [s \in Subscribers |->
                  IF \E t \in txn.armed : s \in watches[t]
                  THEN [chan[s] EXCEPT !.Got = @ + 1, !.Index = txn.cmd.Index]
                  ELSE chan[s]]
    /\ watches' = [t \in Tables |-> IF t \in txn.armed THEN {} ELSE watches[t]]
    /\ txn' = NoTxn
    /\ UNCHANGED <<state, cmd, resp, nextIndex, view, snap, peer>>

(***************************************************************************)
(* SpecWatch: two subscribers on the acls and nodes watches; ACLs set,     *)
(* deleted and restored, registrations that commit and registrations that  *)
(* abort after arming the nodes watch.                                     *)
(***************************************************************************)
WatchedTables == {"acls", "nodes"}
WatchCmds ==
    LogCmds(ACLRequestType, ACLReqs({"set", "delete"}, {"acl1"}, {"r1"}))
    \cup LogCmds(ACLRequestType, ACLReqs({"set"}, {""}, {"r1"}))
    \cup RestoreCmds({[ID |-> "acl1", Rules |-> "r2", CreateIndex |-> 1,
                       ModifyIndex |-> 1]})
    \cup LogCmds(RegisterRequestType,
                 {RegRequest("n1", None, None, <<>>),
                  RegRequest("n1", None, RegCheck("n1", "c1", HealthPassing, "s1"),
                             <<>>)})
NextWatch ==
    \/ Wait(Subscribers, WatchedTables)
    \/ TxnBegin(WatchCmds)
    \/ TxnCommit
    \/ TxnAbort
    \/ Notify

SpecWatch == Init /\ [][NextWatch]_vars
\* A commit runs the notifications it owes before it returns.
SpecWatchLive == SpecWatch /\ WF_vars(Notify)

\* A channel gets at most one notification, and none while it is registered.
ChanOneShot ==
    \A s \in Subscribers :
        /\ chan[s].Got <= 1
        /\ s \in Registered => chan[s].Got = 0 /\ s \in watches[chan[s].Table]
\* A notification comes from a commit that mutated the watched table, to a
\* subscriber registered on it, which it deregisters.
NotifiedByCommit ==
    \A s \in Subscribers :
        chan'[s].Got > chan[s].Got =>
            /\ txn.phase = "committed"
            /\ chan[s].Table \in txn.armed
            /\ s \in watches[chan[s].Table]
            /\ s \notin watches'[chan[s].Table]
\* The transaction ends in a mutation of the acls table.
MutatesACLs(st, c) ==
    \/ c.Call = "ACLRestore"
    \/ /\ c.Call = "Apply" /\ c.Type = ACLRequestType
       /\ \/ c.Req.Op = "set" /\ c.Req.ACL.ID # ""
          \/ c.Req.Op = "delete" /\ c.Req.ACL.ID \in DOMAIN st.acls
\* The commit of a mutation of the acls table has armed the acls watch.
CommitArms ==
    (txn.phase = "open" /\ txn'.phase = "committed" /\ MutatesACLs(state, txn.cmd))
        => "acls" \in txn'.armed
\* A subscriber registered when a mutation of its table commits is notified.
CommitNotifies ==
    \A s \in Subscribers :
        (txn.phase = "committed" /\ s \in Registered /\ chan[s].Table \in txn.armed)
            ~> (chan[s].Got = 1 /\ s \notin Registered)

\* C15: each subscriber registered on a table watch when a mutation of the
\* table commits (for acls: ACLSet, ACLDelete of an ACL, ACLRestore) is
\* eventually notified by that commit, exactly once, and is not notified
\* again by later commits unless it registers again.
C15_WatchFires ==
    /\ [](ChanOneShot)
    /\ [][NotifiedByCommit /\ CommitArms]_vars
    /\ CommitNotifies

\* Subscriber w1 has been notified by the ACLRestore and has not registered
\* again; a later commit on the acls table has notified w2 only.
C15_Witness ==
    /\ chan["w1"] = [Table |-> "acls", Got |-> 1, Index |-> 2]
    /\ chan["w2"] = [Table |-> "acls", Got |-> 1, Index |-> 3]
    /\ cmd.Call = "Apply"
    /\ cmd.Index = 3
    /\ txn = NoTxn

\* The write that fails has armed a watch, and a subscriber waits on it.
AbortStep ==
    (txn.phase = "open" /\ txn.aborted /\ txn' # txn) =>
        /\ txn' = NoTxn
        /\ resp'.kind = "error"
        /\ state' = state
        /\ chan' = chan
        /\ watches' = watches
\* No step that hands an error to the caller touches a channel.
ErrorNotifiesNobody ==
    (cmd' # cmd /\ resp'.kind = "error") => chan' = chan /\ watches' = watches

\* C17: a write transaction that aborts (a command that returns a
\* precondition error) notifies no subscriber: the watches it had armed are
\* dropped with it, the subscribers stay registered, the store is untouched.
C17_AbortNotifiesNobody == [][AbortStep /\ ErrorNotifiesNobody]_vars

\* The registration of the unknown node n1 has just aborted on its check,
\* after it wrote the node: w1 still waits on the nodes watch, while w2 was
\* notified by an earlier commit.
C17_Witness ==
    /\ cmd.Call = "Apply"
    /\ cmd.Type = RegisterRequestType
    /\ resp = Error(ErrMissingService)
    /\ txn = NoTxn
    /\ "n1" \notin DOMAIN state.nodes
    /\ watches["nodes"] = {"w1"}
    /\ chan["w1"].Got = 0
    /\ chan["w2"].Got = 1

(***************************************************************************)
(* Read transactions.  A reader opens its transaction on the store as      *)
(* committed at that moment and reads its tables one by one from it.       *)
(***************************************************************************)
\* What a read transaction returns of table t of store st.
ReadOf(st, t) == [rows |-> TableRows(st, t), index |-> st.index[t]]

\* A subscriber (or anybody, by = "") opens a read transaction.
BeginRead(subs) ==
    \E s \in subs :
        /\ view = NoView
        /\ view' = [open |-> TRUE, by |-> s, at |-> cmd.Index,
                    note |-> IF s \in Subscribers THEN chan[s] ELSE NoChan,
                    st |-> state, seen |-> EmptyTable]
        /\ UNCHANGED <<state, cmd, resp, nextIndex, watches, chan, txn, snap, peer>>

\* A faulty ReadTable that reads the store as committed by now.
ReadTable_Latest(tbls) ==
    \E t \in tbls :
        /\ view.open
        /\ t \notin DOMAIN view.seen
        /\ view' = [view EXCEPT !.seen = Put(@, t, ReadOf(state, t))]
        /\ UNCHANGED <<state, cmd, resp, nextIndex, watches, chan, txn, snap, peer>>
\* The reader reads one more table, from the store its transaction opened on.
ReadTable(tbls) ==
    \E t \in tbls :
        /\ view.open
        /\ t \notin DOMAIN view.seen
        /\ view' = [view EXCEPT !.seen = Put(@, t, ReadOf(view.st, t))]
        /\ UNCHANGED <<state, cmd, resp, nextIndex, watches, chan, txn, snap, peer>>

EndRead ==
    /\ view.open
    /\ view' = NoView
    /\ UNCHANGED <<state, cmd, resp, nextIndex, watches, chan, txn, snap, peer>>

(***************************************************************************)
(* SpecNotifyRead: a subscriber of the acls watch that reads the table     *)
(* whenever it likes, before and after its notifications.                  *)
(***************************************************************************)
NotifyReadCmds ==
    LogCmds(ACLRequestType, ACLReqs({"set", "delete"}, {"acl1"}, {"r1"}))
    \cup LogCmds(ACLRequestType, ACLReqs({"set"}, {""}, {"r1"}))
    \cup RestoreCmds({[ID |-> "acl1", Rules |-> "r2", CreateIndex |-> 1,
                       ModifyIndex |-> 1]})
NextNotifyRead ==
    \/ Wait({"w1"}, {"acls"})
    \/ TxnBegin(NotifyReadCmds)
    \/ TxnCommit
    \/ TxnAbort
    \/ Notify
    \/ BeginRead({"w1"})
    \/ ReadTable({"acls"})
    \/ EndRead

SpecNotifyRead == Init /\ [][NextNotifyRead]_vars

\* When a notification is delivered the store is the one its transaction
\* wrote and committed.
NotifyAfterCommit ==
    \A s \in Subscribers :
        chan'[s].Got > chan[s].Got =>
            /\ txn.phase = "committed"
            /\ state = txn.work
            /\ cmd = txn.cmd
            /\ state' = state
            /\ chan'[s].Index = cmd.Index
\* A read opened by a notified subscriber is on a store at or past the
\* operation that notified it, and what it reads is of that store.
ReadSeesWrite ==
    (view.open /\ view.note.Got > 0) =>
        /\ view.at >= view.note.Index
        /\ \A t \in DOMAIN view.seen :
              /\ view.seen[t] = ReadOf(view.st, t)
              /\ (cmd.Index = view.note.Index /\ txn = NoTxn)
                    => view.seen[t] = ReadOf(state, t)

\* C16: a watch notification caused by a write transaction is delivered only
\* after the transaction has committed: in every interleaving, a read opened
\* by a subscriber after it received the notification observes the write
\* that triggered it.
C16_NotifyAfterCommit == [](ReadSeesWrite) /\ [][NotifyAfterCommit]_vars

\* Subscriber w1, notified by the commit of operation 2, has opened a read
\* and read the acls table with the ACL that operation wrote, while the
\* writer has the next transaction open.
C16_Witness ==
    /\ view.open
    /\ view.note = [Table |-> "acls", Got |-> 1, Index |-> 2]
    /\ "acls" \in DOMAIN view.seen
    /\ view.seen["acls"].index = 2
    /\ "acl1" \in DOMAIN view.seen["acls"].rows
    /\ txn.phase = "open"
    /\ txn.cmd.Index = 3

(***************************************************************************)
(* SpecRead: a reader that reads nodes, services and checks in any order   *)
(* while the writer registers and deregisters node n1 with its service and *)
(* its check.                                                              *)
(***************************************************************************)
ReadCmds ==
    LogCmds(RegisterRequestType,
            {RegRequest("n1", None, None, <<>>),
             RegRequest("n1", NodeServiceOf("s1"),
                        RegCheck("n1", "c1", HealthPassing, "s1"), <<>>),
             RegRequest("n1", None, RegCheck("n1", "c2", HealthPassing, "s2"), <<>>)})
    \cup LogCmds(DeregisterRequestType,
                 {[Node |-> "n1", ServiceID |-> "", CheckID |-> ""],
                  [Node |-> "n1", ServiceID |-> "s1", CheckID |-> ""]})
CatalogTables == {"nodes", "services", "checks"}
NextRead ==
    \/ TxnBegin(ReadCmds)
    \/ TxnCommit
    \/ TxnAbort
    \/ Notify
    \/ BeginRead({""})
    \/ ReadTable(CatalogTables)
    \/ EndRead

SpecRead == Init /\ [][NextRead]_vars

\* The committed store changes only by a commit, and then to the store the
\* whole command gives.
CommitAtomic ==
    state' # state =>
        /\ txn.phase = "open"
        /\ ~txn.aborted
        /\ txn'.phase = "committed"
        /\ state' = Apply(state, [Index |-> txn.cmd.Index, Type |-> txn.cmd.Type,
                                  Req |-> txn.cmd.Req]).st
\* Everything the reader has read is of one committed store, the one its
\* transaction opened on.
ViewOfOneStore ==
    view.open => \A t \in DOMAIN view.seen : view.seen[t] = ReadOf(view.st, t)
\* The reader sees no service or check of a node it sees absent.
ObservedParents ==
    view.open =>
        \A t \in {"services", "checks"} :
            ({"nodes", t} \subseteq DOMAIN view.seen) =>
                \A k \in DOMAIN view.seen[t].rows :
                    k[1] \in DOMAIN view.seen["nodes"].rows
\* The reader sees no row above the index row of its table.
ObservedIndexRows ==
    view.open =>
        \A t \in DOMAIN view.seen :
            \A k \in DOMAIN view.seen[t].rows :
                view.seen[t].rows[k].ModifyIndex <= view.seen[t].index

\* C18: a read that runs while commands are applied observes, of every
\* command, all its mutations across the tables it touches or none: the
\* committed store moves in one step from the store before the command to
\* the store after it, and a read transaction reads every table from the one
\* committed store it opened on; so it never sees a service or check of a
\* node it sees absent, nor a row above the index row of its table.
C18_ReadsAtomic ==
    /\ [](ViewOfOneStore /\ ObservedParents /\ ObservedIndexRows)
    /\ [][CommitAtomic]_vars

\* The reader has read the services and the checks of n1 and then the nodes,
\* n1 among them, although the deregistration of n1 committed after the read
\* was opened.
C18_Witness ==
    /\ view.open
    /\ DOMAIN view.seen = CatalogTables
    /\ "n1" \in DOMAIN view.seen["nodes"].rows
    /\ <<"n1", "s1">> \in DOMAIN view.seen["services"].rows
    /\ <<"n1", "c1">> \in DOMAIN view.seen["checks"].rows
    /\ cmd.Type = DeregisterRequestType
    /\ cmd.Index > view.at
    /\ DOMAIN state.nodes = {}

(***************************************************************************)
(* Snapshot, Persist, Restore.  A snapshot is the store as of Snapshot();  *)
(* Persist writes a header and then one record per entity, each a message  *)
(* type byte and a body; Restore reads them into a new store.              *)
(***************************************************************************)
\* The elements of a set in the order a table hands them out.
RECURSIVE SeqOf(_)
SeqOf(S) ==
    IF S = {} THEN <<>>
    ELSE LET x == CHOOSE y \in S : TRUE IN <<x>> \o SeqOf(S \ {x})
RECURSIVE Concat(_)
Concat(ss) == IF ss = <<>> THEN <<>> ELSE Head(ss) \o Concat(Tail(ss))

\* StateSnapshot.LastIndex: the highest index row when the snapshot was taken.
LastIndex(st) == maxIndex(st, Tables)

Record(type, body) == [Type |-> type, Body |-> body]

\* A faulty persistNodes that writes a node's checks before its services.
persistNodes_ChecksFirst(st) ==
    LET ofNode(n) ==
            LET req == RegRequest(n, None, None, <<>>)
                sids == SeqOf({k \in DOMAIN st.services : k[1] = n})
                cids == SeqOf({k \in DOMAIN st.checks : k[1] = n})
            IN <<Record(RegisterRequestType, [req EXCEPT !.Address = st.nodes[n].Address])>>
               \o [i \in DOMAIN cids |->
                     Record(RegisterRequestType,
                            [req EXCEPT !.Address = st.nodes[n].Address,
                                        !.Check = [Node |-> n, CheckID |-> cids[i][2],
                                                   Status |-> st.checks[cids[i]].Status,
                                                   ServiceID |-> st.checks[cids[i]].ServiceID]])]
               \o [i \in DOMAIN sids |->
                     Record(RegisterRequestType,
                            [req EXCEPT !.Address = st.nodes[n].Address,
                                        !.Service = [ID |-> sids[i][2],
                                                     Service |-> st.services[sids[i]].Service]])]
        ns == SeqOf(DOMAIN st.nodes)
    IN Concat([i \in DOMAIN ns |-> ofNode(ns[i])])
\* persistNodes: per node, the node alone, then the node with each of its
\* services, then the node with each of its checks.
persistNodes(st) ==
    LET ofNode(n) ==
            LET req == RegRequest(n, None, None, <<>>)
                sids == SeqOf({k \in DOMAIN st.services : k[1] = n})
                cids == SeqOf({k \in DOMAIN st.checks : k[1] = n})
            IN <<Record(RegisterRequestType, [req EXCEPT !.Address = st.nodes[n].Address])>>
               \o [i \in DOMAIN sids |->
                     Record(RegisterRequestType,
                            [req EXCEPT !.Address = st.nodes[n].Address,
                                        !.Service = [ID |-> sids[i][2],
                                                     Service |-> st.services[sids[i]].Service]])]
               \o [i \in DOMAIN cids |->
                     Record(RegisterRequestType,
                            [req EXCEPT !.Address = st.nodes[n].Address,
                                        !.Check = [Node |-> n, CheckID |-> cids[i][2],
                                                   Status |-> st.checks[cids[i]].Status,
                                                   ServiceID |-> st.checks[cids[i]].ServiceID]])]
        ns == SeqOf(DOMAIN st.nodes)
    IN Concat([i \in DOMAIN ns |-> ofNode(ns[i])])

persistSessions(st) ==
    LET ids == SeqOf(DOMAIN st.sessions)
    IN [i \in DOMAIN ids |->
          Record(SessionRequestType,
                 [ID |-> ids[i], Node |-> st.sessions[ids[i]].Node,
                  Checks |-> st.sessions[ids[i]].Checks,
                  Behavior |-> st.sessions[ids[i]].Behavior,
                  CreateIndex |-> st.sessions[ids[i]].CreateIndex,
                  ModifyIndex |-> st.sessions[ids[i]].ModifyIndex])]

persistACLs(st) ==
    LET ids == SeqOf(DOMAIN st.acls)
    IN [i \in DOMAIN ids |->
          Record(ACLRequestType,
                 [ID |-> ids[i], Rules |-> st.acls[ids[i]].Rules,
                  CreateIndex |-> st.acls[ids[i]].CreateIndex,
                  ModifyIndex |-> st.acls[ids[i]].ModifyIndex])]

\* A structs.DirEntry on the wire.
DirEntryOf(key, value, session, lockIndex, ci, mi) ==
    [Key |-> key, Value |-> value, Session |-> session, LockIndex |-> lockIndex,
     CreateIndex |-> ci, ModifyIndex |-> mi]
persistKV(st) ==
    LET ks == SeqOf(DOMAIN st.kvs)
    IN [i \in DOMAIN ks |->
          Record(KVSRequestType,
                 DirEntryOf(ks[i], st.kvs[ks[i]].Value, st.kvs[ks[i]].Session,
                            st.kvs[ks[i]].LockIndex, st.kvs[ks[i]].CreateIndex,
                            st.kvs[ks[i]].ModifyIndex))]

\* persistTombstones: a tombstone goes out as a DirEntry that has only the
\* key and, as ModifyIndex, the tombstone's index.
\* A faulty persistTombstones that puts the index into CreateIndex.
persistTombstones_InCreateIndex(st) ==
    LET ks == SeqOf(DOMAIN st.tombstones)
    IN [i \in DOMAIN ks |->
          Record(TombstoneRequestType,
                 DirEntryOf(ks[i], "", "", 0, st.tombstones[ks[i]], 0))]
persistTombstones(st) ==
    LET ks == SeqOf(DOMAIN st.tombstones)
    IN [i \in DOMAIN ks |->
          Record(TombstoneRequestType,
                 DirEntryOf(ks[i], "", "", 0, 0, st.tombstones[ks[i]]))]

\* The restoring writes of the store: the row goes in with the indexes it
\* carries, the table's index row rises to its ModifyIndex.
\* A faulty KVSRestore that stamps the entry anew with its ModifyIndex.
KVSRestore_Restamps(st, e) ==
    Ok([st EXCEPT !.kvs = Put(@, e.Key, [Value |-> e.Value, Session |-> e.Session,
                                         LockIndex |-> e.LockIndex,
                                         CreateIndex |-> e.ModifyIndex,
                                         ModifyIndex |-> e.ModifyIndex]),
                  !.index["kvs"] = Max2(@, e.ModifyIndex)])
KVSRestore(st, e) ==
    Ok([st EXCEPT !.kvs = Put(@, e.Key, [Value |-> e.Value, Session |-> e.Session,
                                         LockIndex |-> e.LockIndex,
                                         CreateIndex |-> e.CreateIndex,
                                         ModifyIndex |-> e.ModifyIndex]),
                  !.index["kvs"] = Max2(@, e.ModifyIndex)])
SessionRestore(st, sess) ==
    Ok([st EXCEPT !.sessions = Put(@, sess.ID,
                                   [Node |-> sess.Node, Checks |-> sess.Checks,
                                    Behavior |-> sess.Behavior,
                                    CreateIndex |-> sess.CreateIndex,
                                    ModifyIndex |-> sess.ModifyIndex]),
                  !.session_checks = @ \cup {[Node |-> sess.Node, CheckID |-> c,
                                              Session |-> sess.ID] : c \in sess.Checks},
                  !.index["sessions"] = Max2(@, sess.ModifyIndex)])
\* A faulty TombstoneRestore that forgets the tombstone.
TombstoneRestore_Forgets(st, stone) == Ok(st)
TombstoneRestore(st, stone) ==
    Ok([st EXCEPT !.tombstones = Put(@, stone.Key, stone.Index)])

\* Restore: a new store, the header, then every record in stream order.  A
\* registration is applied at the header's LastIndex and what it returns is
\* dropped; the other records go through the store's restoring writes.
\* A record or header the decoder cannot read.
Corrupt == [corrupt |-> TRUE]
ErrDecode == "decode error"
restoreRecord(st, lastIndex, rec) ==
    CASE rec.Type = RegisterRequestType ->
            IF rec.Body = Corrupt THEN Fail(st, ErrDecode)
            ELSE Ok(applyRegister(st, rec.Body, lastIndex).st)
      [] rec.Type = KVSRequestType ->
            IF rec.Body = Corrupt THEN Fail(st, ErrDecode) ELSE KVSRestore(st, rec.Body)
      [] rec.Type = SessionRequestType ->
            IF rec.Body = Corrupt THEN Fail(st, ErrDecode)
            ELSE SessionRestore(st, rec.Body)
      [] rec.Type = ACLRequestType ->
            IF rec.Body = Corrupt THEN Fail(st, ErrDecode) ELSE ACLRestore(st, rec.Body)
      [] rec.Type = TombstoneRequestType ->
            IF rec.Body = Corrupt THEN Fail(st, ErrDecode)
            ELSE TombstoneRestore(st, [Key |-> rec.Body.Key,
                                       Index |-> rec.Body.ModifyIndex])
      [] OTHER -> Fail(st, "Unrecognized msg type")
RECURSIVE restoreRecords(_, _, _)
restoreRecords(st, lastIndex, recs) ==
    IF recs = <<>> THEN Ok(st)
    ELSE LET r == restoreRecord(st, lastIndex, Head(recs))
         IN IF r.err # "" THEN r ELSE restoreRecords(r.st, lastIndex, Tail(recs))
\* A faulty Restore that installs the new store after it has read the header.
Restore_InstallsLate(sink) ==
    IF Head(sink) = Corrupt THEN Fail(state, ErrDecode)
    ELSE restoreRecords(NewStateStore, Head(sink).LastIndex, Tail(sink))
Restore(sink) ==
    IF Head(sink) = Corrupt THEN Fail(NewStateStore, ErrDecode)
    ELSE restoreRecords(NewStateStore, Head(sink).LastIndex, Tail(sink))

\* Snapshot(): the handle holds the store as of now.
Snapshot ==
    /\ snap = NoSnap
    /\ snap' = [phase |-> "header", st |-> state, sink |-> <<>>]
    /\ UNCHANGED <<state, cmd, resp, nextIndex, watches, chan, txn, view, peer>>

\* One part of Persist, read from store st: the header, then nodes,
\* sessions, ACLs, K/V entries, tombstones.
PersistFrom(st) ==
    /\ snap.phase \in {"header", "nodes", "sessions", "acls", "kv", "tombstones"}
    /\ snap' =
          CASE snap.phase = "header" ->
                  [snap EXCEPT !.sink = <<[LastIndex |-> LastIndex(st)]>>,
                               !.phase = "nodes"]
            [] snap.phase = "nodes" ->
                  [snap EXCEPT !.sink = @ \o persistNodes(st), !.phase = "sessions"]
            [] snap.phase = "sessions" ->
                  [snap EXCEPT !.sink = @ \o persistSessions(st), !.phase = "acls"]
            [] snap.phase = "acls" ->
                  [snap EXCEPT !.sink = @ \o persistACLs(st), !.phase = "kv"]
            [] snap.phase = "kv" ->
                  [snap EXCEPT !.sink = @ \o persistKV(st), !.phase = "tombstones"]
            [] snap.phase = "tombstones" ->
                  [snap EXCEPT !.sink = @ \o persistTombstones(st), !.phase = "done"]
    /\ UNCHANGED <<state, cmd, resp, nextIndex, watches, chan, txn, view, peer>>
\* A faulty Persist that reads the live store.
Persist_ReadsLive == PersistFrom(state)
Persist == PersistFrom(snap.st)

\* Release closes the snapshot; the sink stays with the log layer.
Release ==
    /\ snap.phase = "done"
    /\ snap' = [snap EXCEPT !.phase = "released"]
    /\ UNCHANGED <<state, cmd, resp, nextIndex, watches, chan, txn, view, peer>>

(***************************************************************************)
(* SpecSnapshot: one snapshot, persisted part by part while the log goes   *)
(* on applying commands of every kind.                                     *)
(***************************************************************************)
SnapRegisterReqs ==
    {RegRequest("n1", NodeServiceOf("s1"), RegCheck("n1", "c1", HealthPassing, "s1"),
                <<>>)}
SnapKVSReqs ==
    KVSReqs({"delete"}, DirEntries({<<"f">>}, {"x"}, {""}, {0}))
    \cup KVSReqs({"lock"}, DirEntries({<<"f">>}, {"x"}, {"a"}, {0}))
SnapSessionReqs == SessionCreateReqs({"a"}, {"n1"}, {{}}, {""})
SnapACLReqs == ACLReqs({"set", "delete"}, {"acl1"}, {"r1"})
SnapApply ==
    \/ Register(SnapRegisterReqs)
    \/ Deregister({[Node |-> "n1", ServiceID |-> "", CheckID |-> ""]})
    \/ KVS(SnapKVSReqs)
    \/ Session(SnapSessionReqs)
    \/ ACL(SnapACLReqs)
NextSnapshot ==
    \/ SnapApply
    \/ Snapshot
    \/ Persist
    \/ Release

SpecSnapshot == Init /\ [][NextSnapshot]_vars

\* The whole stream Persist owes for a store.
StreamOf(st) ==
    <<[LastIndex |-> LastIndex(st)]>> \o persistNodes(st) \o persistSessions(st)
    \o persistACLs(st) \o persistKV(st) \o persistTombstones(st)
SnapshotOpen == snap.phase \in {"header", "nodes", "sessions", "acls", "kv", "tombstones", "done"}
\* Snapshot() holds the store of its moment, and no later step changes what
\* the handle holds.
SnapshotHolds ==
    /\ (snap = NoSnap /\ snap' # NoSnap) => snap'.st = state
    /\ (snap # NoSnap /\ snap' # NoSnap) => snap'.st = snap.st
\* The finished stream is the stream of the store Snapshot() saw.
PersistedAsOfSnapshot == snap.phase \in {"done", "released"} => snap.sink = StreamOf(snap.st)
\* While a snapshot is open the log can apply a command.
ApplyNotBlocked == (SnapshotOpen /\ LogHasRoom) => ENABLED SnapApply

\* C19: Persist writes exactly the entities and the LastIndex the store had
\* when Snapshot() was called, whatever commands are applied between
\* Snapshot() and the end of Persist, and an open snapshot never stops
\* Apply.
C19_SnapshotIsolated ==
    /\ [](PersistedAsOfSnapshot /\ ApplyNotBlocked)
    /\ [][SnapshotHolds]_vars
\* A stream is finished for a store with entities in it, after a command
\* that changed the store was applied while the snapshot was open.
C19_Witness ==
    /\ snap.phase = "done"
    /\ snap.st # state
    /\ DOMAIN snap.st.nodes # {}
    /\ DOMAIN snap.st.kvs # {}
    /\ LastIndex(state) > LastIndex(snap.st)
    /\ StreamOf(state) # snap.sink

\* The store Restore builds from the stream of the snapshot.
Restored == Restore(snap.sink).st
\* A table with every row stamped idx.
Stamped(tbl, idx) ==
    [k \in DOMAIN tbl |-> [tbl[k] EXCEPT !.CreateIndex = idx, !.ModifyIndex = idx]]
ReadOps(ops, st) == {r \in Reads(st) : r.op \in ops}

\* The statement of C20 as written: every read of the restored store
\* returns the result and the index it returns on the original.
C20_AsStated == snap.phase = "done" => Reads(Restored) = Reads(snap.st)

\* K/V entries, tombstones, sessions and ACLs come back with their own
\* indexes; nodes, services and checks come back stamped with LastIndex.
RestoredRows ==
    LET o == snap.st
        r == Restored
        L == LastIndex(o)
    IN /\ Restore(snap.sink).err = ""
       /\ r.kvs = o.kvs /\ r.tombstones = o.tombstones
       /\ r.sessions = o.sessions /\ r.session_checks = o.session_checks
       /\ r.acls = o.acls
       /\ r.nodes = Stamped(o.nodes, L)
       /\ r.services = Stamped(o.services, L)
       /\ r.checks = Stamped(o.checks, L)
\* A restored index row is LastIndex for a catalog table with rows, the
\* highest ModifyIndex of its rows for the other tables: never above the
\* original's, and below it where the last write was a delete.
RestoredIndexRows ==
    LET o == snap.st
        r == Restored
        L == LastIndex(o)
        tbl(t) == CASE t = "nodes" -> r.nodes [] t = "services" -> r.services
                    [] t = "checks" -> r.checks [] t = "kvs" -> r.kvs
                    [] t = "sessions" -> r.sessions [] t = "acls" -> r.acls
    IN /\ \A t \in {"nodes", "services", "checks"} :
            r.index[t] = IF DOMAIN tbl(t) = {} THEN 0 ELSE L
       /\ \A t \in {"kvs", "sessions", "acls"} :
            /\ r.index[t] = SetMax(ModifyIndexes(tbl(t), DOMAIN tbl(t)))
            /\ r.index[t] <= o.index[t]
       /\ LastIndex(r) <= L
\* The reads that come back identical, index included.
RestoredReads ==
    LET ops == {"KVSList", "KVSListKeys", "NodeSessions"}
    IN ReadOps(ops, Restored) = ReadOps(ops, snap.st)

\* C20, amended: Snapshot, Persist, Restore yields a store with the same
\* K/V entries, tombstones, sessions and ACLs under their original
\* CreateIndex and ModifyIndex, and the same nodes, services and checks with
\* CreateIndex and ModifyIndex both set to the snapshot's LastIndex; KVSList,
\* KVSListKeys and NodeSessions return the original result and index, and no
\* index row of the restored store is above the original's LastIndex.
C20_RestoreRoundTrip ==
    snap.phase = "done" => (RestoredRows /\ RestoredIndexRows /\ RestoredReads)
\* A snapshot with a node, its service and check, a session, a locked K/V
\* entry, and catalog rows written before LastIndex has been persisted.
C20_Witness ==
    /\ snap.phase = "done"
    /\ DOMAIN snap.st.services # {} /\ DOMAIN snap.st.checks # {}
    /\ DOMAIN snap.st.sessions # {}
    /\ \E k \in DOMAIN snap.st.kvs : snap.st.kvs[k].Session # ""
    /\ \E n \in DOMAIN snap.st.nodes : snap.st.nodes[n].ModifyIndex < LastIndex(snap.st)
    /\ Restored.nodes # snap.st.nodes

(***************************************************************************)
(* The indexes Restore gives to what it restores.                          *)
(***************************************************************************)
StampedAt(row, ci, mi) == row.CreateIndex = ci /\ row.ModifyIndex = mi
\* What the restored store holds for one record of the stream: a registration
\* is stamped with the header's index, every other record keeps its own.
RestoredAs(r, L, rec) ==
    CASE rec.Type = RegisterRequestType ->
            /\ rec.Body.Node \in DOMAIN r.nodes
            /\ StampedAt(r.nodes[rec.Body.Node], L, L)
            /\ rec.Body.Service # None =>
                  /\ <<rec.Body.Node, rec.Body.Service.ID>> \in DOMAIN r.services
                  /\ StampedAt(r.services[<<rec.Body.Node, rec.Body.Service.ID>>], L, L)
            /\ rec.Body.Check # None =>
                  /\ <<rec.Body.Node, rec.Body.Check.CheckID>> \in DOMAIN r.checks
                  /\ StampedAt(r.checks[<<rec.Body.Node, rec.Body.Check.CheckID>>], L, L)
      [] rec.Type = KVSRequestType ->
            /\ rec.Body.Key \in DOMAIN r.kvs
            /\ StampedAt(r.kvs[rec.Body.Key], rec.Body.CreateIndex, rec.Body.ModifyIndex)
      [] rec.Type = SessionRequestType ->
            /\ rec.Body.ID \in DOMAIN r.sessions
            /\ StampedAt(r.sessions[rec.Body.ID], rec.Body.CreateIndex,
                         rec.Body.ModifyIndex)
      [] rec.Type = ACLRequestType ->
            /\ rec.Body.ID \in DOMAIN r.acls
            /\ StampedAt(r.acls[rec.Body.ID], rec.Body.CreateIndex, rec.Body.ModifyIndex)
      [] rec.Type = TombstoneRequestType ->
            /\ rec.Body.Key \in DOMAIN r.tombstones
            /\ r.tombstones[rec.Body.Key] = rec.Body.ModifyIndex
\* Every restored entity carries the header's index.
AllAtLastIndex(r, L) ==
    /\ \A t \in {"nodes", "services", "checks", "kvs", "sessions", "acls"} :
          \A k \in DOMAIN r[t] : StampedAt(r[t][k], L, L)
    /\ \A k \in DOMAIN r.tombstones : r.tombstones[k] = L

\* The statement of C21 as written: Restore gives header.LastIndex to every
\* record, so every restored entity has it as CreateIndex and ModifyIndex.
C21_AsStated ==
    snap.phase = "done" => AllAtLastIndex(Restored, Head(snap.sink).LastIndex)

\* C21, amended: Restore applies the node registration records (node,
\* service, check) with header.LastIndex as their index; K/V entries,
\* sessions, ACLs and tombstones are restored with the CreateIndex and
\* ModifyIndex (for a tombstone, the index) their record carries.
C21_RestoreIndexes ==
    snap.phase = "done" =>
        \A i \in 2..Len(snap.sink) :
            RestoredAs(Restored, Head(snap.sink).LastIndex, snap.sink[i])
\* A stream is restored that holds a registration written before LastIndex
\* and a K/V entry changed after its creation and before LastIndex.
C21_Witness ==
    /\ snap.phase = "done"
    /\ \E n \in DOMAIN snap.st.nodes :
          /\ snap.st.nodes[n].ModifyIndex < LastIndex(snap.st)
          /\ Restored.nodes[n].ModifyIndex = LastIndex(snap.st)
    /\ \E k \in DOMAIN snap.st.kvs :
          /\ snap.st.kvs[k].CreateIndex < snap.st.kvs[k].ModifyIndex
          /\ snap.st.kvs[k].ModifyIndex < LastIndex(snap.st)
          /\ Restored.kvs[k] = snap.st.kvs[k]

(***************************************************************************)
(* SpecRestore: Restore on every stream of up to MaxRecords records, well  *)
(* formed or not, with a readable or an unreadable header.                 *)
(***************************************************************************)
MaxRecords == 3
RestoreRecs ==
    {Record(RegisterRequestType, RegRequest("n1", None, None, <<>>)),
     Record(RegisterRequestType, RegRequest("n1", NodeServiceOf("s1"), None, <<>>)),
     Record(RegisterRequestType,
            RegRequest("n1", None, RegCheck("n1", "c1", HealthPassing, "s1"), <<>>)),
     Record(RegisterRequestType,
            RegRequest("n2", None, RegCheck("n1", "c1", HealthPassing, ""), <<>>)),
     Record(KVSRequestType, DirEntryOf(<<"f">>, "x", "", 0, 1, 1)),
     Record(SessionRequestType,
            [ID |-> "a", Node |-> "n1", Checks |-> {}, Behavior |-> SessionKeysRelease,
             CreateIndex |-> 1, ModifyIndex |-> 1]),
     Record(ACLRequestType, [ID |-> "acl1", Rules |-> "r1", CreateIndex |-> 1,
                             ModifyIndex |-> 1]),
     Record(TombstoneRequestType, DirEntryOf(<<"g">>, "", "", 0, 0, 1)),
     Record(KVSRequestType, Corrupt),
     Record(IgnoreUnknownTypeFlag - 1, Corrupt)}
Streams ==
    {<<h>> \o body : h \in {[LastIndex |-> MaxIndex], Corrupt},
                     body \in UNION {[1..n -> RestoreRecs] : n \in 0..MaxRecords}}
InitRestore ==
    /\ state = NewStateStore
    /\ cmd = NoCmd
    /\ resp = Nil
    /\ nextIndex = 1
    /\ watches = [t \in Tables |-> {}]
    /\ chan = [s \in Subscribers |-> NoChan]
    /\ txn = NoTxn
    /\ view = NoView
    /\ snap \in {[phase |-> "stream", sink |-> s] : s \in Streams}
    /\ peer = NoPeer

\* Restore of the stream at hand: the FSM's store is the new one, filled up
\* to the record that stopped it; the caller gets the error or nil.
RestoreStream ==
    /\ snap.phase = "stream"
    /\ LET r == Restore(snap.sink)
       IN /\ state' = r.st
          /\ resp' = IF r.err # "" THEN Error(r.err) ELSE Nil
    /\ cmd' = [Call |-> "Restore", Type |-> -1, Index |-> 0, Req |-> None]
    /\ snap' = [snap EXCEPT !.phase = "restored"]
    /\ UNCHANGED <<nextIndex, watches, chan, txn, view, peer>>
NextRestore == RestoreStream
SpecRestore == InitRestore /\ [][NextRestore]_vars

\* Some record of the stream fails: it cannot be decoded, its type is
\* unknown, or the store refuses it, on the store the records before it left.
RECURSIVE RecordFails(_, _, _)
RecordFails(st, lastIndex, recs) ==
    IF recs = <<>> THEN FALSE
    ELSE LET rec == Head(recs)
             refused == /\ rec.Type = RegisterRequestType
                        /\ rec.Body # Corrupt
                        /\ EnsureRegistration(st, lastIndex, rec.Body).err # ""
             r == restoreRecord(st, lastIndex, rec)
         IN \/ refused
            \/ r.err # ""
            \/ RecordFails(r.st, lastIndex, Tail(recs))
StreamFails(sink) ==
    \/ Head(sink) = Corrupt
    \/ Head(sink) # Corrupt /\ RecordFails(NewStateStore, Head(sink).LastIndex, Tail(sink))
\* A registration the store refuses, in a stream that is otherwise sound.
RegistrationRefused(sink) ==
    /\ Head(sink) # Corrupt
    /\ Restore(sink).err = ""
    /\ RecordFails(NewStateStore, Head(sink).LastIndex, Tail(sink))

\* C22 as stated: whenever a record of the stream fails to decode or to
\* apply, a refused node registration included, Restore returns an error.
C22_AsStated ==
    (cmd.Call = "Restore" /\ StreamFails(snap.sink)) => resp.kind = "error"
\* Restore has returned nil on a stream whose only record registers a check
\* of a service that is not registered.
C22_Witness ==
    /\ cmd.Call = "Restore"
    /\ snap.sink = <<[LastIndex |-> MaxIndex],
                     Record(RegisterRequestType,
                            RegRequest("n1", None,
                                       RegCheck("n1", "c1", HealthPassing, "s1"), <<>>))>>
    /\ RegistrationRefused(snap.sink)
    /\ resp = Nil
    /\ state = NewStateStore

(***************************************************************************)
(* Tombstones through Persist and Restore.                                 *)
(***************************************************************************)
Range(seq) == {seq[i] : i \in DOMAIN seq}
\* Every tombstone of the snapshot is in the stream as a tombstone record
\* with a K/V body whose ModifyIndex is its index, and in the restored store
\* under its key with its index; nothing else is a tombstone there.
TombstonesTravel ==
    /\ \A k \in DOMAIN snap.st.tombstones :
          /\ Record(TombstoneRequestType,
                    DirEntryOf(k, "", "", 0, 0, snap.st.tombstones[k])) \in Range(snap.sink)
          /\ k \in DOMAIN Restored.tombstones
          /\ Restored.tombstones[k] = snap.st.tombstones[k]
    /\ DOMAIN Restored.tombstones = DOMAIN snap.st.tombstones
\* KVSList answers the index of the original on every prefix.
TombstoneIndexKept ==
    \A p \in KVPrefixes : KVSList(Restored, p).idx = KVSList(snap.st, p).idx

\* C23: every tombstone (key, index) of the snapshot is there with the same
\* key and index after Persist and Restore, carried by a K/V record's
\* ModifyIndex, and KVSList on a prefix that covers a deleted key returns
\* the index it returns on the original.
C23_TombstonesRestored == snap.phase = "done" => (TombstonesTravel /\ TombstoneIndexKept)
\* A snapshot with a tombstone whose index is what KVSList answers.
C23_Witness ==
    /\ snap.phase = "done"
    /\ <<"f">> \in DOMAIN snap.st.tombstones
    /\ snap.st.tombstones[<<"f">>] > 1
    /\ snap.st.tombstones[<<"f">>] < LastIndex(snap.st)
    /\ KVSList(Restored, <<"f">>) = [idx |-> snap.st.tombstones[<<"f">>], res |-> EmptyTable]

(***************************************************************************)
(* The result index of the filtered catalog queries.                       *)
(***************************************************************************)
\* The filtered queries with the table each one scans.
FilteredReads(st) ==
    {[table |-> "services", out |-> NodeServices(st, n)] : n \in NodeNames}
    \cup {[table |-> "checks", out |-> NodeChecks(st, n)] : n \in NodeNames}
    \cup {[table |-> "checks", out |-> ServiceChecks(st, x)] : x \in ServiceIDs}
ChecksInStateReads(st) ==
    {[table |-> "checks", out |-> ChecksInState(st, x)] :
        x \in {HealthAny, HealthPassing, HealthCritical}}
\* The highest ModifyIndex among the rows a query returned, 0 for none.
ResultMax(out) == SetMax({out.res[k].ModifyIndex : k \in DOMAIN out.res})
IndexRowOrRows(st, q) == q.out.idx = Max2(st.index[q.table], ResultMax(q.out))

JoinIndexes(out) ==
    UNION {{out.res[i][k].ModifyIndex : k \in DOMAIN out.res[i]} : i \in 1..3}
JoinRowsMax ==
    \A x \in ServiceIDs :
        LET out == CheckServiceNodes(state, x)
        IN /\ out.idx = SetMax(JoinIndexes(out))
           /\ out.idx <= maxIndex(state, {"nodes", "services", "checks"})
\* A step that wrote a node, service or check of the answer at its index
\* makes the query answer that index.
JoinFollowsUpdate ==
    \A x \in ServiceIDs :
        LET out == CheckServiceNodes(state', x)
        IN (cmd'.Index \in JoinIndexes(out) /\ resp' = Nil) => out.idx = cmd'.Index

FrameRegisterReqs ==
    {CatRegister("n1", None, None),
     CatRegister("n1", NodeServiceOf("s1"), CatCheck("n1", "c1", "s1")),
     CatRegister("n2", NodeServiceOf("s1"), CatCheck("n2", "c1", "s1"))}
FrameDeregisterReqs ==
    {[Node |-> "n2", ServiceID |-> "", CheckID |-> ""],
     [Node |-> "n2", ServiceID |-> "", CheckID |-> "c1"]}
FrameSessionReqs ==
    SessionCreateReqs({"a"}, {"n1"}, {{}}, {""})
    \cup SessionCreateReqs({"b"}, {"n2"}, {{}}, {""})
    \cup SessionOpReqs({"destroy"}, {"b"})
FrameKVSReqs ==
    KVSReqs({"set"}, DirEntries({<<"f">>, <<"g">>}, {"x"}, {""}, {0}))
    \cup KVSReqs({"delete"}, DirEntries({<<"g">>}, {"x"}, {""}, {0}))
    \cup KVSReqs({"delete-tree"}, DirEntries({<<"f">>}, {"x"}, {""}, {0}))
NextFrame ==
    \/ Register(FrameRegisterReqs)
    \/ Deregister(FrameDeregisterReqs)
    \/ Session(FrameSessionReqs)
    \/ KVS(FrameKVSReqs)
SpecFrame == Init /\ [][NextFrame]_vars

\* The nodes whose rows command c may touch on store st.
NodesTouched(st, c) ==
    CASE c.Type \in {RegisterRequestType, DeregisterRequestType} -> {c.Req.Node}
      [] c.Type = SessionRequestType /\ c.Req.Op = "create" -> {c.Req.Session.Node}
      [] c.Type = SessionRequestType /\ c.Req.Op # "create" ->
            {st.sessions[i].Node : i \in DOMAIN st.sessions \cap {c.Req.Session.ID}}
      [] OTHER -> {}
\* K/V command c may touch a key under prefix p.
PrefixTouched(c, p) ==
    /\ c.Type = KVSRequestType
    /\ \/ HasPrefix(c.Req.DirEnt.Key, p)
       \/ c.Req.Op = "delete-tree" /\ HasPrefix(p, c.Req.DirEnt.Key)
\* A write to the rows of other nodes leaves the index of the queries on
\* node n alone.
NodeFrame ==
    \A n \in NodeNames \ NodesTouched(state, cmd') :
        /\ NodeServices(state', n).idx = NodeServices(state, n).idx
        /\ NodeChecks(state', n).idx = NodeChecks(state, n).idx
        /\ NodeSessions(state', n).idx = NodeSessions(state, n).idx
\* A K/V write to a key outside prefix p leaves the index of the listings
\* of p alone.
PrefixFrame ==
    \A p \in KVPrefixes :
        (cmd'.Type = KVSRequestType /\ ~PrefixTouched(cmd', p)) =>
            /\ KVSList(state', p).idx = KVSList(state, p).idx
            /\ KVSListKeys(state', p).idx = KVSListKeys(state, p).idx

\* C26: the index NodeServices(n), NodeChecks(n) and NodeSessions(n) return
\* is not changed by a write that only touches rows of another node, and the
\* index KVSList(p) and KVSListKeys(p) return is not changed by a write to a
\* key outside p.
C26_QueryFrame == [][NodeFrame /\ PrefixFrame]_vars
\* A key outside prefix f was just written, after an entry under f; node n1
\* has a service and node n2's was written later.
C26_Witness ==
    /\ IsKVS(cmd, "set")
    /\ cmd.Req.DirEnt.Key = <<"g">>
    /\ DOMAIN KVSList(state, <<"f">>).res # {}
    /\ KVSList(state, <<"f">>).idx < cmd.Index
    /\ KVSList(state, <<>>).idx = cmd.Index
    /\ DOMAIN NodeServices(state, "n1").res # {}
    /\ NodeServices(state, "n1").idx < NodeServices(state, "n2").idx

(***************************************************************************)
(* SpecUpsert: the upserts of every table, on new and on existing rows,    *)
(* with the same and with other content, and the deletes between them.     *)
(***************************************************************************)
UpsertRegisterReqs ==
    {RegRequest("n1", None, None, <<>>),
     [RegRequest("n1", None, None, <<>>) EXCEPT !.Address = "1.1.1.2"],
     RegRequest("n1", NodeServiceOf("s1"), RegCheck("n1", "c1", HealthPassing, "s1"),
                <<>>)}
UpsertKVSReqs ==
    KVSReqs({"set"}, DirEntries({<<"f">>}, {"x", "y"}, {""}, {0, MaxIndex}))
    \cup KVSReqs({"delete"}, DirEntries({<<"f">>}, {"x"}, {""}, {0}))
UpsertACLReqs == ACLReqs({"set"}, {"acl1"}, {"r1", "r2"}) \cup ACLReqs({"delete"}, {"acl1"}, {"r1"})
NextUpsert ==
    \/ Register(UpsertRegisterReqs)
    \/ Deregister({[Node |-> "n1", ServiceID |-> "", CheckID |-> ""]})
    \/ KVS(UpsertKVSReqs)
    \/ ACL(UpsertACLReqs)
    \/ CallEnsureService({"n1"}, {"s1"})
    \/ CallEnsureCheck({RegCheck("n1", "c1", HealthCritical, "")})
SpecUpsert == Init /\ [][NextUpsert]_vars

\* Row k of a table after an upsert at idx: CreateIndex is the old row's, or
\* idx for a new row; ModifyIndex is idx.
Upserted(old, new, k, idx) ==
    /\ k \in DOMAIN new
    /\ new[k].ModifyIndex = idx
    /\ new[k].CreateIndex = IF k \in DOMAIN old THEN old[k].CreateIndex ELSE idx
\* What each upsert of the step's command wrote.
C27_Step ==
    LET c == cmd'
        i == cmd'.Index
    IN /\ (c.Call = "Apply" /\ c.Type = RegisterRequestType /\ resp' = Nil) =>
             /\ Upserted(state.nodes, state'.nodes, c.Req.Node, i)
             /\ c.Req.Service # None =>
                   Upserted(state.services, state'.services,
                            <<c.Req.Node, c.Req.Service.ID>>, i)
             /\ c.Req.Check # None =>
                   Upserted(state.checks, state'.checks,
                            <<c.Req.Check.Node, c.Req.Check.CheckID>>, i)
       /\ (c.Call = "EnsureService" /\ resp' = Nil) =>
             Upserted(state.services, state'.services, <<c.Req.Node, c.Req.Service.ID>>, i)
       /\ (c.Call = "EnsureCheck" /\ resp' = Nil) =>
             Upserted(state.checks, state'.checks, <<c.Req.Node, c.Req.CheckID>>, i)
       /\ IsKVS(c, "set") => Upserted(state.kvs, state'.kvs, c.Req.DirEnt.Key, i)
       /\ (c.Call = "Apply" /\ c.Type = ACLRequestType /\ c.Req.Op = "set"
           /\ resp'.kind # "error") =>
             Upserted(state.acls, state'.acls, c.Req.ACL.ID, i)

SameNodeAgain ==
    /\ cmd'.Call = "Apply" /\ cmd'.Type = RegisterRequestType /\ resp' = Nil
    /\ cmd'.Req.Node \in DOMAIN state.nodes
    /\ state.nodes[cmd'.Req.Node].Address = cmd'.Req.Address

\* The statement of C28 as written: EnsureNode of the same content at a
\* later index leaves the node's ModifyIndex as it was.
C28_AsStated ==
    [][SameNodeAgain => state'.nodes[cmd'.Req.Node] = state.nodes[cmd'.Req.Node]]_vars

\* C28, amended: EnsureNode(v) followed by EnsureNode(v) with the same
\* content at a later index i preserves the node's CreateIndex and sets its
\* ModifyIndex and the nodes index row to i, as it does when the content
\* differs.
C28_SameNodeStamped ==
    [][SameNodeAgain =>
          LET old == state.nodes[cmd'.Req.Node]
              new == state'.nodes[cmd'.Req.Node]
          IN /\ new.CreateIndex = old.CreateIndex
             /\ new.Address = old.Address
             /\ new.ModifyIndex = cmd'.Index
             /\ new.ModifyIndex > old.ModifyIndex
             /\ state'.index["nodes"] = cmd'.Index]_vars
\* The node was registered again with the address it had: it keeps its
\* CreateIndex and has the index of the second registration as ModifyIndex.
C28_Witness ==
    /\ cmd.Call = "Apply" /\ cmd.Type = RegisterRequestType
    /\ cmd.Req = RegRequest("n1", None, None, <<>>)
    /\ cmd.Index = 2
    /\ state.nodes["n1"] = [Address |-> "1.1.1.1", CreateIndex |-> 1, ModifyIndex |-> 2]
    /\ state.index["nodes"] = 2

(***************************************************************************)
(* SpecTombstone: every way a key is removed, every way it is written      *)
(* again, and the reaping of tombstones at every index.                    *)
(***************************************************************************)
TombKVSReqs ==
    KVSReqs({"set", "delete", "delete-tree"}, DirEntries({<<"f">>}, {"x"}, {""}, {0}))
    \cup KVSReqs({"cas"}, DirEntries({<<"f">>}, {"x"}, {""}, {0}))
    \cup KVSReqs({"delete-cas"}, DirEntries({<<"f">>}, {"x"}, {""}, {1, 2}))
    \cup KVSReqs({"lock"}, DirEntries({<<"f">>}, {"x"}, {"a"}, {0}))
    \cup KVSReqs({"set", "delete"}, DirEntries({<<"g">>}, {"x"}, {""}, {0}))
TombSessionReqs ==
    SessionCreateReqs({"a"}, {"n1"}, {{}}, {SessionKeysDelete})
    \cup SessionOpReqs({"destroy"}, {"a"})
NextTombstone ==
    \/ Register({RegRequest("n1", None, None, <<>>)})
    \/ Session(TombSessionReqs)
    \/ KVS(TombKVSReqs)
    \/ Tombstone(TombstoneReqs({"reap"}, 1..MaxIndex))
SpecTombstone == Init /\ [][NextTombstone]_vars

\* No key is live and tombstoned at once.
LiveOrDead == DOMAIN state.kvs \cap DOMAIN state.tombstones = {}
\* Every key a step removes has a tombstone at the step's index, and every
\* entry a step writes has no tombstone.
RemovalsLeaveTombstones ==
    /\ \A k \in DOMAIN state.kvs \ DOMAIN state'.kvs :
          /\ k \in DOMAIN state'.tombstones
          /\ state'.tombstones[k] = cmd'.Index
    /\ \A k \in DOMAIN state'.kvs :
          (k \notin DOMAIN state.kvs \/ state'.kvs[k] # state.kvs[k]) =>
              k \notin DOMAIN state'.tombstones

\* C29: in every reachable state no key has both a live entry and a
\* tombstone; every removal of an entry (KVSDelete, KVSDeleteCAS,
\* KVSDeleteTree, destruction of a session of behaviour delete) writes the
\* key's tombstone, and KVSSet, and a KVSSetCAS or KVSLock that creates the
\* key, removes it.
C29_LiveXorTombstone == [](LiveOrDead) /\ [][RemovalsLeaveTombstones]_vars
\* The destruction of a session of behaviour delete has just removed the
\* key it held and left its tombstone, next to a live key.
C29_Witness ==
    /\ cmd.Type = SessionRequestType /\ cmd.Req.Op = "destroy"
    /\ <<"f">> \notin DOMAIN state.kvs
    /\ <<"f">> \in DOMAIN state.tombstones
    /\ state.tombstones[<<"f">>] = cmd.Index
    /\ state.index["kvs"] = cmd.Index
    /\ "a" \notin DOMAIN state.sessions

(***************************************************************************)
(* ReapTombstones.                                                         *)
(***************************************************************************)
IsReap(c) == c.Call = "Apply" /\ c.Type = TombstoneRequestType /\ c.Req.Op = "reap"
\* What a reap step does: the tombstones at or below the reap index go, the
\* others and every entry and index row stay, and a listing whose prefix
\* covers a surviving tombstone answers no less than its index.
C30_Step ==
    IsReap(cmd') =>
        LET upto == cmd'.Req.ReapIndex
            kept == {k \in DOMAIN state.tombstones : state.tombstones[k] > upto}
        IN /\ resp' = Nil
           /\ state'.tombstones = Restrict(state.tombstones, kept)
           /\ state' = [state EXCEPT !.tombstones = state'.tombstones]
           /\ \A p \in KVPrefixes :
                 /\ KVSList(state', p).res = KVSList(state, p).res
                 /\ \A k \in kept :
                       HasPrefix(k, p) => KVSList(state', p).idx >= state.tombstones[k]
                 /\ (\E k \in kept : HasPrefix(k, p)
                                     /\ state.tombstones[k] = KVSList(state, p).idx)
                       => KVSList(state', p).idx = KVSList(state, p).idx

\* C30: ReapTombstones(upto) removes exactly the tombstones whose index is
\* at most upto; every tombstone above it and every live entry stays as it
\* was, so a prefix query still returns the index of a surviving tombstone.
C30_ReapExactly == [][C30_Step]_vars
\* A reap has just run below the index of a tombstone, which survives and
\* gives the listing its index, above the live entry's.
C30_Witness ==
    /\ IsReap(cmd)
    /\ <<"g">> \in DOMAIN state.tombstones
    /\ cmd.Req.ReapIndex < state.tombstones[<<"g">>]
    /\ cmd.Req.ReapIndex >= 2
    /\ <<"f">> \in DOMAIN state.kvs
    /\ KVSList(state, <<>>).idx = state.tombstones[<<"g">>]
    /\ state.kvs[<<"f">>].ModifyIndex < state.tombstones[<<"g">>]

(***************************************************************************)
(* LockIndex.                                                              *)
(***************************************************************************)
\* The LockIndex of key k, 0 for a key that is not there.
LockIndexOf(st, k) == IF k \in DOMAIN st.kvs THEN st.kvs[k].LockIndex ELSE 0
\* The step is a lock that gave key k to a session that did not hold it.
Acquires(k) ==
    /\ IsKVS(cmd', "lock") /\ resp' = Bool(TRUE)
    /\ cmd'.Req.DirEnt.Key = k
    /\ HolderOf(state, k) # cmd'.Req.DirEnt.Session
C31_Step ==
    \A k \in KVKeys :
        /\ Acquires(k) =>
              /\ state'.kvs[k].LockIndex = LockIndexOf(state, k) + 1
              /\ state'.kvs[k].Session = cmd'.Req.DirEnt.Session
        /\ (~Acquires(k) /\ k \in DOMAIN state.kvs /\ k \in DOMAIN state'.kvs) =>
              state'.kvs[k].LockIndex = state.kvs[k].LockIndex
        /\ (~Acquires(k) /\ k \notin DOMAIN state.kvs /\ k \in DOMAIN state'.kvs) =>
              state'.kvs[k].LockIndex = 0

C32_Step ==
    (IsKVS(cmd', "unlock") /\ cmd'.Req.DirEnt.Session # "") =>
        LET e == cmd'.Req.DirEnt
        IN IF HolderOf(state, e.Key) = e.Session
           THEN /\ resp' = Bool(TRUE)
                /\ state'.kvs[e.Key].Session = ""
                /\ state'.kvs[e.Key].LockIndex = state.kvs[e.Key].LockIndex
                /\ state'.kvs[e.Key].CreateIndex = state.kvs[e.Key].CreateIndex
                /\ state'.kvs[e.Key].ModifyIndex = cmd'.Index
                /\ state'.index["kvs"] = cmd'.Index
           ELSE /\ resp' = Bool(FALSE)
                /\ state' = state

\* C32: KVSUnlock by the session that holds the key clears the entry's
\* session, keeps LockIndex and returns true; KVSUnlock by any other session,
\* also on an unheld or absent key, returns false and changes neither the
\* entry nor the kvs index.
C32_Unlock == [][C32_Step]_vars
\* The holder has just unlocked the key it had locked.
C32_Witness ==
    /\ IsKVS(cmd, "unlock") /\ resp = Bool(TRUE)
    /\ state.kvs[cmd.Req.DirEnt.Key].Session = ""
    /\ state.kvs[cmd.Req.DirEnt.Key].LockIndex = 1
    /\ state.kvs[cmd.Req.DirEnt.Key].ModifyIndex = cmd.Index
    /\ cmd.Req.DirEnt.Session \in DOMAIN state.sessions

(***************************************************************************)
(* SpecSession: session creations that meet and that miss each             *)
(* precondition, over a node whose check is registered passing or          *)
(* critical and deregistered.                                              *)
(***************************************************************************)
CreateRegisterReqs ==
    {RegRequest("n1", None, None, <<>>),
     RegRequest("n1", None, RegCheck("n1", "c1", HealthPassing, ""), <<>>),
     RegRequest("n1", None, RegCheck("n1", "c1", HealthCritical, ""), <<>>)}
CreateSessionReqs ==
    {ErrSession(id, n, cs, b) :
        id \in {"", "a"}, n \in {"n1", "n2"}, cs \in {{}, {"c1"}},
        b \in {"", SessionKeysDelete, "nope"}}
    \cup SessionOpReqs({"destroy"}, {"a"})
NextSession ==
    \/ Register(CreateRegisterReqs)
    \/ Deregister({[Node |-> "n1", ServiceID |-> "", CheckID |-> "c1"]})
    \/ Session(CreateSessionReqs)

SpecSession == Init /\ [][NextSession]_vars

\* The session meets every precondition of SessionCreate in store st.
Creatable(st, sess) ==
    /\ sess.ID # ""
    /\ sess.Behavior \in {"", SessionKeysRelease, SessionKeysDelete}
    /\ sess.Node \in DOMAIN st.nodes
    /\ \A c \in sess.Checks :
          /\ <<sess.Node, c>> \in DOMAIN st.checks
          /\ st.checks[<<sess.Node, c>>].Status # HealthCritical
IsSessionCreate(c) ==
    c.Call = "Apply" /\ c.Type = SessionRequestType /\ c.Req.Op = "create"
C33_Step ==
    IsSessionCreate(cmd') =>
        LET sess == cmd'.Req.Session
        IN IF Creatable(state, sess)
           THEN /\ resp' = Str(sess.ID)
                /\ sess.ID \in DOMAIN state'.sessions
                /\ state'.sessions[sess.ID].CreateIndex = cmd'.Index
                /\ state'.sessions[sess.ID].ModifyIndex = cmd'.Index
                /\ state'.sessions[sess.ID].Node = sess.Node
                /\ state'.sessions[sess.ID].Behavior =
                      (IF sess.Behavior = "" THEN SessionKeysRelease ELSE sess.Behavior)
                /\ \A c \in sess.Checks :
                      Cardinality({m \in state'.session_checks :
                                      /\ m.Session = sess.ID
                                      /\ m.Node = sess.Node
                                      /\ m.CheckID = c}) = 1
                /\ state'.index["sessions"] = cmd'.Index
           ELSE /\ resp'.kind = "error"
                /\ state' = state

\* C33: SessionCreate succeeds only when the ID is not empty, the behaviour
\* is empty, release or delete, the node exists and every listed check
\* exists on that node and is not critical; on success CreateIndex and
\* ModifyIndex are the index, an empty behaviour is stored as release and
\* there is one session_checks mapping for every listed check; otherwise it
\* returns an error and the store is unchanged.
C33_SessionCreate == [][C33_Step]_vars
\* A session with an empty behaviour and a passing check has just been
\* created.
C33_Witness ==
    /\ IsSessionCreate(cmd) /\ resp = Str("a")
    /\ cmd.Req.Session.Behavior = "" /\ cmd.Req.Session.Checks = {"c1"}
    /\ state.sessions["a"].Behavior = SessionKeysRelease
    /\ state.sessions["a"].CreateIndex = cmd.Index
    /\ [Node |-> "n1", CheckID |-> "c1", Session |-> "a"] \in state.session_checks

(***************************************************************************)
(* SpecDeregister: deregistrations naming a service, a check, both or      *)
(* neither, on a node with a service, its check and a check of the node.   *)
(***************************************************************************)
NextDeregister ==
    \/ Register(DelRegisterReqs)
    \/ Deregister(DeregisterReqs({"n1", "n2"}, {"", "s1"}, {"", "c1", "c2"}))

SpecDeregister == Init /\ [][NextDeregister]_vars

IsDeregister(c) == c.Call = "Apply" /\ c.Type = DeregisterRequestType
\* The checks of the node that are not bound to the service.
ChecksBesideService(st, node, sid) ==
    {k \in DOMAIN st.checks : k[1] = node /\ st.checks[k].ServiceID # sid}
C34_Step ==
    IsDeregister(cmd') =>
        LET r == cmd'.Req
            idx == cmd'.Index
        IN /\ resp' = Nil
           /\ IF r.ServiceID # ""
              THEN /\ state' = DeleteService(state, idx, r.Node, r.ServiceID).st
                   /\ state'.nodes = state.nodes
                   /\ <<r.Node, r.ServiceID>> \notin DOMAIN state'.services
                   /\ \A k \in ChecksBesideService(state, r.Node, r.ServiceID) :
                         k \in DOMAIN state'.checks /\ state'.checks[k] = state.checks[k]
              ELSE IF r.CheckID # ""
              THEN /\ state' = DeleteCheck(state, idx, r.Node, r.CheckID).st
                   /\ state'.nodes = state.nodes
                   /\ state'.services = state.services
                   /\ <<r.Node, r.CheckID>> \notin DOMAIN state'.checks
              ELSE /\ state' = DeleteNode(state, idx, r.Node).st
                   /\ r.Node \notin DOMAIN state'.nodes

\* C34: a deregistration with a service id runs DeleteService only, also
\* when it names a check as well; without a service id and with a check id
\* it runs DeleteCheck only; with neither it runs DeleteNode; in the first
\* two cases the node is still registered afterwards.
C34_DeregisterDispatch == [][C34_Step]_vars
\* A deregistration naming the service and the check of the node has just
\* removed the service and its check and left the named check in place.
C34_Witness ==
    /\ IsDeregister(cmd) /\ resp = Nil
    /\ cmd.Req = [Node |-> "n1", ServiceID |-> "s1", CheckID |-> "c2"]
    /\ state.index["services"] = cmd.Index
    /\ "n1" \in DOMAIN state.nodes
    /\ <<"n1", "s1">> \notin DOMAIN state.services
    /\ <<"n1", "c1">> \notin DOMAIN state.checks
    /\ <<"n1", "c2">> \in DOMAIN state.checks

(***************************************************************************)
(* SpecDispatch: log entries of the six message types with the             *)
(* ignore-if-unknown flag set, and entries of types this machine does not  *)
(* know, flagged and not.  A panic ends the process: nothing is applied    *)
(* after it.                                                               *)
(***************************************************************************)
Running == resp # Panic
Flags == {0, IgnoreUnknownTypeFlag}
UnknownTypes == {TombstoneRequestType + 1, IgnoreUnknownTypeFlag \div 2}
UnknownRequest == [Foo |-> "bar"]
ApplyFlagged(type, reqs) ==
    \E r \in reqs :
        /\ Running
        /\ LogHasRoom
        /\ ApplyLog(type + IgnoreUnknownTypeFlag, r)
RegisterFlagged == ApplyFlagged(RegisterRequestType, {RegRequest("n1", None, None, <<>>)})
DeregisterFlagged ==
    ApplyFlagged(DeregisterRequestType, {[Node |-> "n1", ServiceID |-> "", CheckID |-> ""]})
KVSFlagged ==
    ApplyFlagged(KVSRequestType,
                 KVSReqs({"set", "lock"}, DirEntries({<<"f">>}, {"x"}, {"a"}, {0})))
SessionFlagged ==
    ApplyFlagged(SessionRequestType, SessionCreateReqs({"a"}, {"n1"}, {{}}, {""}))
ACLFlagged == ApplyFlagged(ACLRequestType, ACLReqs({"set"}, {"acl1"}, {"r1"}))
TombstoneFlagged ==
    ApplyFlagged(TombstoneRequestType, TombstoneReqs({"reap"}, {MaxIndex}))
ApplyUnknown ==
    \E t \in UnknownTypes, f \in Flags :
        /\ Running
        /\ LogHasRoom
        /\ ApplyLog(t + f, UnknownRequest)
NextDispatch ==
    \/ RegisterFlagged
    \/ DeregisterFlagged
    \/ KVSFlagged
    \/ SessionFlagged
    \/ ACLFlagged
    \/ TombstoneFlagged
    \/ ApplyUnknown

SpecDispatch == Init /\ [][NextDispatch]_vars

\* The flag and the type of a log entry's first byte.
FlagOf(c) == (c.Type \div IgnoreUnknownTypeFlag) % 2 = 1
TypeOf(c) == IF FlagOf(c) THEN c.Type - IgnoreUnknownTypeFlag ELSE c.Type
Recognised ==
    {RegisterRequestType, DeregisterRequestType, KVSRequestType, SessionRequestType,
     ACLRequestType, TombstoneRequestType}
IsUnknown(c) == c.Call = "Apply" /\ TypeOf(c) \notin Recognised
C35_Step ==
    /\ IsUnknown(cmd') =>
          /\ state' = state
          /\ resp' = IF FlagOf(cmd') THEN Nil ELSE Panic
    /\ resp # Panic

\* C35: Apply of a message type it does not recognise returns nil and leaves
\* the store unchanged when the ignore-if-unknown bit is set; when the bit is
\* clear it panics: the store is not changed and nothing is applied after
\* it.
C35_UnknownType == [][C35_Step]_vars
\* A flagged unknown type has just been ignored in a store that holds a
\* node and a key.
C35_Witness ==
    /\ IsUnknown(cmd) /\ FlagOf(cmd) /\ resp = Nil
    /\ "n1" \in DOMAIN state.nodes
    /\ <<"f">> \in DOMAIN state.kvs
\* An unflagged unknown type has just ended the process.
C35_PanicWitness ==
    /\ IsUnknown(cmd) /\ ~FlagOf(cmd) /\ resp = Panic
    /\ "n1" \in DOMAIN state.nodes

(***************************************************************************)
(* SpecReplica: two machines built empty and fed by one log.  Entries are  *)
(* committed to the log by clients and by the tombstone collector, whose   *)
(* timer emits a reap command; each machine applies the committed entries  *)
(* in log order at its own pace.                                           *)
(***************************************************************************)
LogEntry(type, req) == [Index |-> Len(peer.log) + 1, Type |-> type, Req |-> req]
ReplicaReqs ==
    {[Type |-> RegisterRequestType, Req |-> RegRequest("n1", None, None, <<>>)]}
    \cup {[Type |-> SessionRequestType, Req |-> r] :
             r \in SessionCreateReqs({"a"}, {"n1"}, {{}}, {SessionKeysDelete})}
    \cup {[Type |-> KVSRequestType, Req |-> r] :
             r \in KVSReqs({"set", "delete"}, DirEntries({<<"f">>}, {"x"}, {""}, {0}))}
\* A client's command is committed to the log.
Commit ==
    \E c \in ReplicaReqs :
        /\ Len(peer.log) < MaxIndex
        /\ peer' = [peer EXCEPT !.log = Append(@, LogEntry(c.Type, c.Req))]
        /\ UNCHANGED <<state, cmd, resp, nextIndex, watches, chan, txn, view, snap>>
\* A faulty collector whose timer reaps the tombstones of its own machine's
\* store instead of committing a reap command.
TimerFires_ReapsLocally ==
    \E i \in {state.tombstones[k] : k \in DOMAIN state.tombstones} :
        /\ Len(peer.log) < MaxIndex
        /\ state' = ReapTombstones(state, i).st
        /\ UNCHANGED <<cmd, resp, nextIndex, watches, chan, txn, view, snap, peer>>
\* A timer of the tombstone collector fires on the first machine: it commits
\* a reap command for the tombstones of one of its buckets, and touches no
\* store.
TimerFires ==
    \E i \in {state.tombstones[k] : k \in DOMAIN state.tombstones} :
        /\ Len(peer.log) < MaxIndex
        /\ peer' = [peer EXCEPT
                      !.log = Append(@, LogEntry(TombstoneRequestType,
                                                [Op |-> "reap", ReapIndex |-> i]))]
        /\ UNCHANGED <<state, cmd, resp, nextIndex, watches, chan, txn, view, snap>>
\* The first machine applies the next committed entry.
ApplyNext ==
    /\ nextIndex <= Len(peer.log)
    /\ ApplyLog(peer.log[nextIndex].Type, peer.log[nextIndex].Req)
\* The second machine applies its next committed entry.
PeerApply ==
    /\ peer.applied < Len(peer.log)
    /\ LET r == Apply(peer.state, peer.log[peer.applied + 1])
       IN peer' = [peer EXCEPT !.state = r.st, !.resp = r.resp, !.applied = @ + 1]
    /\ UNCHANGED <<state, cmd, resp, nextIndex, watches, chan, txn, view, snap>>
NextReplica ==
    \/ Commit
    \/ TimerFires
    \/ ApplyNext
    \/ PeerApply

SpecReplica == Init /\ [][NextReplica]_vars

\* Both machines have applied the same entries.
SamePrefix == peer.applied = nextIndex - 1
Agree ==
    SamePrefix =>
        /\ peer.state = state
        /\ peer.resp = resp
        /\ Reads(peer.state) = Reads(state)
\* A store changes only by applying the next entry of the log, and a step
\* that commits an entry changes no store.
C36_Step ==
    /\ peer'.log # peer.log => (state' = state /\ peer'.state = peer.state)
    /\ state' # state =>
          /\ nextIndex <= Len(peer.log)
          /\ nextIndex' = nextIndex + 1
          /\ cmd'.Type = peer.log[nextIndex].Type
          /\ cmd'.Req = peer.log[nextIndex].Req
          /\ cmd'.Index = peer.log[nextIndex].Index
    /\ peer'.state # peer.state =>
          /\ peer.applied < Len(peer.log)
          /\ peer'.applied = peer.applied + 1
    /\ state'.tombstones # state.tombstones => cmd'.Index = nextIndex

TreeKVSReqs ==
    KVSReqs({"set"}, DirEntries({<<"f">>, <<"f", "b">>, <<"g">>}, {"x"}, {""}, {0}))
    \cup KVSReqs({"delete-tree"},
                 DirEntries({<<"f">>, <<"f", "b">>, <<"h">>}, {"x"}, {""}, {0}))
NextTree == KVS(TreeKVSReqs)

SpecTree == Init /\ [][NextTree]_vars

\* The live keys under the prefix.
Under(st, prefix) == {k \in DOMAIN st.kvs : HasPrefix(k, prefix)}
C37_Step ==
    IsKVS(cmd', "delete-tree") =>
        LET prefix == cmd'.Req.DirEnt.Key
            gone == Under(state, prefix)
        IN /\ resp' = Nil
           /\ IF gone = {}
              THEN /\ state'.kvs = state.kvs
                   /\ state'.tombstones = state.tombstones
                   /\ state'.index["kvs"] = state.index["kvs"]
              ELSE /\ DOMAIN state'.kvs = DOMAIN state.kvs \ gone
                   /\ \A k \in DOMAIN state'.kvs : state'.kvs[k] = state.kvs[k]
                   /\ DOMAIN state'.tombstones = DOMAIN state.tombstones \cup gone
                   /\ \A k \in gone : state'.tombstones[k] = cmd'.Index
                   /\ \A k \in DOMAIN state.tombstones \ gone :
                         state'.tombstones[k] = state.tombstones[k]
                   /\ state'.index["kvs"] = cmd'.Index

\* C37: KVSDeleteTree(index, prefix) removes every live entry whose key has
\* the prefix and no other entry, writes one tombstone at index for every
\* removed key and sets the kvs index to index; when no key has the prefix
\* the kvs table, the tombstones and the kvs index are unchanged.
C37_DeleteTree == [][C37_Step]_vars
\* A tree of two keys has just been removed next to a key outside it.
C37_Witness ==
    /\ IsKVS(cmd, "delete-tree") /\ cmd.Req.DirEnt.Key = <<"f">>
    /\ DOMAIN state.kvs = {<<"g">>}
    /\ DOMAIN state.tombstones = {<<"f">>, <<"f", "b">>}
    /\ state.tombstones[<<"f">>] = cmd.Index
    /\ state.tombstones[<<"f", "b">>] = cmd.Index
    /\ state.index["kvs"] = cmd.Index

(***************************************************************************)
(* The order of the persisted stream.                                      *)
(***************************************************************************)
\* The records Persist has written so far, after the header.
Written == IF snap # NoSnap /\ Len(snap.sink) > 0 THEN Tail(snap.sink) ELSE <<>>
IsRegistration(rec) == rec.Type = RegisterRequestType
\* Every registration names its node; a check bound to a service comes
\* after the record of that service on its node, and both after the record
\* of the node alone; no session record comes after a K/V record.
StreamOrdered(recs) ==
    /\ \A j \in DOMAIN recs :
          IsRegistration(recs[j]) =>
              /\ recs[j].Body.Node # ""
              /\ \E i \in 1..j :
                    /\ IsRegistration(recs[i])
                    /\ recs[i].Body.Node = recs[j].Body.Node
                    /\ recs[i].Body.Service = None /\ recs[i].Body.Check = None
              /\ (recs[j].Body.Check # None /\ recs[j].Body.Check.ServiceID # "") =>
                    \E i \in 1..(j - 1) :
                        /\ IsRegistration(recs[i])
                        /\ recs[i].Body.Node = recs[j].Body.Node
                        /\ recs[i].Body.Service # None
                        /\ recs[i].Body.Service.ID = recs[j].Body.Check.ServiceID
    /\ \A i, j \in DOMAIN recs :
          (recs[i].Type = KVSRequestType /\ recs[j].Type = SessionRequestType) => j < i
\* Some registration of the stream returns an error when Restore applies it
\* to the store the records before it have built.
RECURSIVE RegistrationErrs(_, _, _)
RegistrationErrs(st, lastIndex, recs) ==
    IF recs = <<>> THEN FALSE
    ELSE \/ /\ IsRegistration(Head(recs))
            /\ applyRegister(st, Head(recs).Body, lastIndex).resp # Nil
         \/ RegistrationErrs(restoreRecord(st, lastIndex, Head(recs)).st, lastIndex,
                             Tail(recs))
\* The parents of every row of store st exist, and every held key names a
\* session of st.
ParentsIn(st) ==
    /\ \A k \in DOMAIN st.services : k[1] \in DOMAIN st.nodes
    /\ \A k \in DOMAIN st.checks :
          /\ k[1] \in DOMAIN st.nodes
          /\ st.checks[k].ServiceID # "" =>
                <<k[1], st.checks[k].ServiceID>> \in DOMAIN st.services
    /\ \A id \in DOMAIN st.sessions : st.sessions[id].Node \in DOMAIN st.nodes
HoldersIn(st) ==
    \A k \in DOMAIN st.kvs :
        st.kvs[k].Session # "" =>
            /\ st.kvs[k].LockIndex > 0
            /\ st.kvs[k].Session \in DOMAIN st.sessions

\* C38: Persist writes the stream in an order Restore can apply: a node's
\* record, then its services, then its checks, and sessions before K/V
\* entries; so no registration of the stream returns an error on restore,
\* the stream restores without error, and the restored store has every
\* parent and every lock holder.
C38_StreamApplicable ==
    Len(Written) > 0 =>
        /\ StreamOrdered(Written)
        /\ ~RegistrationErrs(NewStateStore, Head(snap.sink).LastIndex, Written)
        /\ Restore(snap.sink).err = ""
        /\ ParentsIn(Restored)
        /\ HoldersIn(Restored)
\* The finished stream of a store with a node, a service, a check bound to
\* the service, a session and a key the session holds has been restored.
C38_Witness ==
    /\ snap.phase = "done"
    /\ <<"n1", "c1">> \in DOMAIN Restored.checks
    /\ Restored.checks[<<"n1", "c1">>].ServiceID = "s1"
    /\ <<"n1", "s1">> \in DOMAIN Restored.services
    /\ HolderOf(Restored, <<"f">>) = "a"
    /\ "a" \in DOMAIN Restored.sessions

(***************************************************************************)
(* SpecRestoreOver: Restore called on a machine that has applied commands. *)
(***************************************************************************)
OverRecs ==
    {Record(RegisterRequestType, RegRequest("n1", None, None, <<>>)),
     Record(KVSRequestType, DirEntryOf(<<"f">>, "x", "", 0, 1, 1)),
     Record(ACLRequestType, [ID |-> "acl1", Rules |-> "r1", CreateIndex |-> 1,
                             ModifyIndex |-> 1]),
     Record(TombstoneRequestType, DirEntryOf(<<"g">>, "", "", 0, 0, 1)),
     Record(KVSRequestType, Corrupt)}
OverStreams ==
    {<<h>> \o body : h \in {[LastIndex |-> MaxIndex], Corrupt},
                     body \in UNION {[1..n -> OverRecs] : n \in 0..2}}
OverKVSReqs ==
    KVSReqs({"set"}, DirEntries({<<"f">>}, {"y"}, {""}, {0}))
    \cup KVSReqs({"delete"}, DirEntries({<<"f">>}, {"y"}, {""}, {0}))
\* Restore of a stream the log layer hands over, on the machine as it is.
RestoreOver ==
    \E sink \in OverStreams :
        /\ snap = NoSnap
        /\ LET r == Restore(sink)
           IN /\ state' = r.st
              /\ resp' = IF r.err # "" THEN Error(r.err) ELSE Nil
        /\ cmd' = [Call |-> "Restore", Type |-> -1, Index |-> 0, Req |-> None]
        /\ snap' = [phase |-> "restored", sink |-> sink]
        /\ UNCHANGED <<nextIndex, watches, chan, txn, view, peer>>
NextRestoreOver ==
    \/ Register({RegRequest("n2", NodeServiceOf("s1"), None, <<>>)})
    \/ KVS(OverKVSReqs)
    \/ ACL(ACLReqs({"set"}, {"acl2"}, {"r1"}))
    \/ RestoreOver

SpecRestoreOver == Init /\ [][NextRestoreOver]_vars

\* The records of the stream that can be decoded, by type.
Decoded(sink, type) ==
    {rec.Body : rec \in {r \in Range(Tail(sink)) : r.Type = type /\ r.Body # Corrupt}}
\* Every row of store st is a row some record of the stream carries.
OnlyFromStream(st, sink) ==
    /\ \A n \in DOMAIN st.nodes :
          \E b \in Decoded(sink, RegisterRequestType) : b.Node = n
    /\ DOMAIN st.services = {}
    /\ DOMAIN st.checks = {}
    /\ DOMAIN st.sessions = {}
    /\ \A k \in DOMAIN st.kvs :
          \E b \in Decoded(sink, KVSRequestType) :
              b.Key = k /\ b.Value = st.kvs[k].Value
    /\ \A k \in DOMAIN st.tombstones :
          \E b \in Decoded(sink, TombstoneRequestType) : b.Key = k
    /\ \A id \in DOMAIN st.acls :
          \E b \in Decoded(sink, ACLRequestType) : b.ID = id
C39_Step ==
    cmd'.Call = "Restore" =>
        /\ OnlyFromStream(state', snap'.sink)
        /\ Head(snap'.sink) = Corrupt => (state' = NewStateStore /\ resp'.kind = "error")
        /\ resp' = Nil =>
              /\ \A b \in Decoded(snap'.sink, RegisterRequestType) :
                    b.Node \in DOMAIN state'.nodes
              /\ \A b \in Decoded(snap'.sink, KVSRequestType) :
                    b.Key \in DOMAIN state'.kvs
              /\ \A b \in Decoded(snap'.sink, ACLRequestType) :
                    b.ID \in DOMAIN state'.acls

\* C39: Restore never keeps the store it found: the machine's store is a
\* new one before the header is read, so whether Restore returns nil or an
\* error the store afterwards holds only rows decoded from the stream and
\* none of the rows it held before the call.
C39_RestoreReplaces == [][C39_Step]_vars
\* Restore has failed on the header over a store that held a node, a key
\* and an ACL, and the store is empty.
C39_Witness ==
    /\ cmd.Call = "Restore"
    /\ Head(snap.sink) = Corrupt
    /\ resp = Error(ErrDecode)
    /\ state = NewStateStore
    /\ nextIndex > 3
\* Restore has failed on the second record over a store that held another
\* value of the key, and the store holds the first record's key alone.
C39_PrefixWitness ==
    /\ cmd.Call = "Restore"
    /\ resp = Error(ErrDecode)
    /\ nextIndex > 2
    /\ DOMAIN state.kvs = {<<"f">>}
    /\ state.kvs[<<"f">>].Value = "x"
    /\ DOMAIN state.nodes = {}
    /\ DOMAIN state.acls = {}

(***************************************************************************)
(* The ignore-if-unknown flag on a recognised type.                        *)
(***************************************************************************)
\* What the handler of the entry's type makes of it in store st.
Handled(st, c) ==
    CASE TypeOf(c) = RegisterRequestType -> applyRegister(st, c.Req, c.Index)
      [] TypeOf(c) = DeregisterRequestType -> applyDeregister(st, c.Req, c.Index)
      [] TypeOf(c) = KVSRequestType -> applyKVSOperation(st, c.Req, c.Index)
      [] TypeOf(c) = SessionRequestType -> applySessionOperation(st, c.Req, c.Index)
      [] TypeOf(c) = ACLRequestType -> applyACLOperation(st, c.Req, c.Index)
      [] TypeOf(c) = TombstoneRequestType -> applyTombstoneOperation(st, c.Req, c.Index)
IsFlaggedKnown(c) == c.Call = "Apply" /\ FlagOf(c) /\ TypeOf(c) \in Recognised
C40_Step ==
    IsFlaggedKnown(cmd') =>
        LET plain == Apply(state, [Index |-> cmd'.Index, Type |-> TypeOf(cmd'),
                                   Req |-> cmd'.Req])
        IN /\ state' = plain.st
           /\ resp' = plain.resp
           /\ state' = Handled(state, cmd').st
           /\ resp' = Handled(state, cmd').resp

\* C40: the ignore-if-unknown bit on a recognised message type does not
\* change what Apply does: the bit is stripped before dispatch, and the
\* store and the return value are those of the same entry without the bit.
C40_FlagIgnoredOnKnown == [][C40_Step]_vars
\* A flagged lock has just given the key to the session a flagged creation
\* made on a node a flagged registration registered.
C40_Witness ==
    /\ IsFlaggedKnown(cmd) /\ TypeOf(cmd) = KVSRequestType
    /\ cmd.Req.Op = "lock" /\ resp = Bool(TRUE)
    /\ HolderOf(state, <<"f">>) = "a"
    /\ state.index["kvs"] = cmd.Index

====
